---------------------------- MODULE Spec2Model ----------------------------
(***************************************************************************)
(* A model of the Cryptal crate: the ChaCha20 block function, the          *)
(* ChaCha20-Poly1305 AEAD, the ChaCha20 CSPRNG, Shamir secret sharing over *)
(* GF(256), the Argon2id memory fill, the fixed-width integers U256 and    *)
(* U512, and the Ed25519 keys: generate_keypair, sign, verify and the      *)
(* X25519 exchange, with SHA-512 and the arithmetic of the curve.          *)
(*                                                                         *)
(* Machine integers keep their width.  TLC's integers are 32-bit signed,   *)
(* so a u8/u16 is an integer, a u32 is a pair <<hi, lo>> of 16-bit halves  *)
(* and a u64 is a little-endian tuple of five 13-bit digits.               *)
(***************************************************************************)
EXTENDS Integers, Sequences, FiniteSets, TLC

VARIABLES
    rng,        \* the Csprng instances: key, nonce, counter
    rngSeed,    \* the seed handed to from_seed
    reqs,       \* the request lengths issued so far, in order
    outs,       \* per generator, the buffers its fill_bytes calls returned
    lastCall,   \* the generator state the last fill_bytes call started from
    aead,       \* a ChaCha20-Poly1305 exchange: encrypt, transit, decrypt
    sss,        \* a Shamir sharing: split, then combine
    ref,        \* an Argon2 memory being filled, with the reference chosen
    par,        \* an Argon2 slice filled by concurrent lanes
    val,        \* a call of argon2id and its outcome
    fixed,      \* an operation on two U256 or two U512 and its result
    keys,       \* a caller of generate_keypair, sign, verify and exchange
    seeded,     \* a constructor of Csprng and the buffers that held its seed
    inside,     \* a call of encrypt and one of decrypt with their local buffers
    seg,        \* a call of fill_segment: its address block and the words it reads
    filled,     \* the memory of a call of fill and its writes, pass by pass
    stream,     \* a generator over a sequence of fill_bytes calls, block by block
    recode,     \* the recoding of a scalar in radix 16, digit by digit
    slid        \* a call of slide, index by index

rngVars == <<rng, rngSeed, reqs, outs, lastCall>>

vars == <<rngVars, aead, sss, ref, par, val, fixed, keys, seeded, inside, seg, filled, stream, recode, slid>>

\* the value of the variables of a part of the library that is not in use
Idle == [phase |-> "idle"]

\* every part but the one named is not in use
IdleBut(part) ==
    /\ IF part = "rng" THEN TRUE
       ELSE rng = Idle /\ rngSeed = Idle /\ reqs = Idle /\ outs = Idle /\ lastCall = Idle
    /\ IF part = "aead" THEN TRUE ELSE aead = Idle
    /\ IF part = "sss" THEN TRUE ELSE sss = Idle
    /\ IF part = "ref" THEN TRUE ELSE ref = Idle
    /\ IF part = "par" THEN TRUE ELSE par = Idle
    /\ IF part = "val" THEN TRUE ELSE val = Idle
    /\ IF part = "fixed" THEN TRUE ELSE fixed = Idle
    /\ IF part = "keys" THEN TRUE ELSE keys = Idle
    /\ IF part = "seeded" THEN TRUE ELSE seeded = Idle
    /\ IF part = "inside" THEN TRUE ELSE inside = Idle
    /\ IF part = "seg" THEN TRUE ELSE seg = Idle
    /\ IF part = "filled" THEN TRUE ELSE filled = Idle
    /\ IF part = "stream" THEN TRUE ELSE stream = Idle
    /\ IF part = "recode" THEN TRUE ELSE recode = Idle
    /\ IF part = "slid" THEN TRUE ELSE slid = Idle

\* every part but the one named keeps its state
UnchangedBut(part) ==
    /\ IF part = "rng" THEN TRUE ELSE UNCHANGED rngVars
    /\ IF part = "aead" THEN TRUE ELSE UNCHANGED aead
    /\ IF part = "sss" THEN TRUE ELSE UNCHANGED sss
    /\ IF part = "ref" THEN TRUE ELSE UNCHANGED ref
    /\ IF part = "par" THEN TRUE ELSE UNCHANGED par
    /\ IF part = "val" THEN TRUE ELSE UNCHANGED val
    /\ IF part = "fixed" THEN TRUE ELSE UNCHANGED fixed
    /\ IF part = "keys" THEN TRUE ELSE UNCHANGED keys
    /\ IF part = "seeded" THEN TRUE ELSE UNCHANGED seeded
    /\ IF part = "inside" THEN TRUE ELSE UNCHANGED inside
    /\ IF part = "seg" THEN TRUE ELSE UNCHANGED seg
    /\ IF part = "filled" THEN TRUE ELSE UNCHANGED filled
    /\ IF part = "stream" THEN TRUE ELSE UNCHANGED stream
    /\ IF part = "recode" THEN TRUE ELSE UNCHANGED recode
    /\ IF part = "slid" THEN TRUE ELSE UNCHANGED slid

-----------------------------------------------------------------------------
(* Bit operations on machine integers.                                      *)

Bit(a, k) == (a \div k) % 2

\* u4 ^ u4 and u4 & u4, tabulated
NibXor == [a \in 0..15 |-> [b \in 0..15 |->
             ((Bit(a, 1) + Bit(b, 1)) % 2) + 2 * ((Bit(a, 2) + Bit(b, 2)) % 2)
           + 4 * ((Bit(a, 4) + Bit(b, 4)) % 2) + 8 * ((Bit(a, 8) + Bit(b, 8)) % 2)]]

NibAnd == [a \in 0..15 |-> [b \in 0..15 |->
             (Bit(a, 1) * Bit(b, 1)) + 2 * (Bit(a, 2) * Bit(b, 2))
           + 4 * (Bit(a, 4) * Bit(b, 4)) + 8 * (Bit(a, 8) * Bit(b, 8))]]

\* u8 ^ u8
Xor8(a, b) == NibXor[a % 16][b % 16] + 16 * NibXor[a \div 16][b \div 16]

\* u16 ^ u16
Xor16(a, b) == Xor8(a % 256, b % 256) + 256 * Xor8(a \div 256, b \div 256)

\* u8 & u8
And8(a, b) == NibAnd[a % 16][b % 16] + 16 * NibAnd[a \div 16][b \div 16]

\* u16 & u16
And16(a, b) == And8(a % 256, b % 256) + 256 * And8(a \div 256, b \div 256)

\* u8 | u8 = (a ^ b) + (a & b)
Or8(a, b) == Xor8(a, b) + And8(a, b)

\* Left fold of Op over lo..hi.  The left half is evaluated to a value (the
\* only element of a singleton set) before the right half is entered, which
\* keeps the evaluation shallow.  Values that are used more than once are
\* operator parameters throughout this module rather than LET definitions:
\* TLC evaluates a parameter once.
RECURSIVE FoldRange(_, _, _, _)
FoldRange(Op(_, _), x, lo, hi) ==
    IF lo > hi THEN x
    ELSE IF lo = hi THEN Op(x, lo)
    ELSE CHOOSE r \in { FoldRange(Op, left, ((lo + hi) \div 2) + 1, hi) :
                        left \in { FoldRange(Op, x, lo, (lo + hi) \div 2) } } : TRUE

\* the same fold for an accumulator that is a large value: the accumulator is compared
\* with itself, which evaluates it, before the next step is entered
RECURSIVE FoldStrict(_, _, _, _)
FoldStrict(Op(_, _), v, lo, hi) ==
    IF v = v /\ lo > hi THEN v
    ELSE IF lo = hi THEN Op(v, lo)
    ELSE FoldStrict(Op, FoldStrict(Op, v, lo, (lo + hi) \div 2), ((lo + hi) \div 2) + 1, hi)

\* let x = a; F(x): a is evaluated before F is entered
Let1(F(_), a) == CHOOSE r \in { F(x) : x \in {a} } : TRUE

\* let x = a; let y = b; F(x, y)
Let2(F(_, _), a, b) == CHOOSE r \in { F(x, y) : x \in {a}, y \in {b} } : TRUE

-----------------------------------------------------------------------------
(* u32 as <<hi, lo>>.                                                       *)


\* u32::wrapping_add
wrapping_add(x, y) ==
    LET lo == x[2] + y[2]
    IN  <<(x[1] + y[1] + (lo \div 65536)) % 65536, lo % 65536>>

\* u32 ^ u32
Xor32(x, y) == <<Xor16(x[1], y[1]), Xor16(x[2], y[2])>>

\* u32 & u32
And32(x, y) == <<And16(x[1], y[1]), And16(x[2], y[2])>>

\* x <<< m for 0 < m < 16, with p = 2^m and q = 2^(16 - m)
rotate_bits(a, p, q) ==
    <<((a[1] % q) * p) + (a[2] \div q), ((a[2] % q) * p) + (a[1] \div q)>>

\* u32::rotate_left(n), 0 < n < 32
rotate_left(x, n) ==
    IF n = 16 THEN <<x[2], x[1]>>
    ELSE IF n < 16 THEN rotate_bits(x, 2 ^ n, 2 ^ (16 - n))
    ELSE rotate_bits(<<x[2], x[1]>>, 2 ^ (n - 16), 2 ^ (32 - n))

\* u32::from_le_bytes
from_le_bytes(b) == <<b[4] * 256 + b[3], b[2] * 256 + b[1]>>

\* u32::to_le_bytes
to_le_bytes(w) == <<w[2] % 256, w[2] \div 256, w[1] % 256, w[1] \div 256>>

\* u32 | u32
Or32(x, y) ==
    <<Or8(x[1] % 256, y[1] % 256) + 256 * Or8(x[1] \div 256, y[1] \div 256),
      Or8(x[2] % 256, y[2] % 256) + 256 * Or8(x[2] \div 256, y[2] \div 256)>>

\* !u32
Not32(x) == <<65535 - x[1], 65535 - x[2]>>

\* u32 << n (the bits shifted out are lost), 0 <= n < 32
Shl32(x, n) ==
    IF n = 0 THEN x
    ELSE IF n < 16
    THEN <<((x[1] % (2 ^ (16 - n))) * (2 ^ n)) + (x[2] \div (2 ^ (16 - n))),
           (x[2] % (2 ^ (16 - n))) * (2 ^ n)>>
    ELSE <<(x[2] % (2 ^ (32 - n))) * (2 ^ (n - 16)), 0>>

\* u32 >> n, 0 <= n < 32
Shr32(x, n) ==
    IF n = 0 THEN x
    ELSE IF n < 16
    THEN <<x[1] \div (2 ^ n), (x[2] \div (2 ^ n)) + ((x[1] % (2 ^ n)) * (2 ^ (16 - n)))>>
    ELSE <<0, x[1] \div (2 ^ (n - 16))>>

\* u32::wrapping_sub
wrapping_sub(x, y) ==
    <<(x[1] - y[1] - (IF x[2] < y[2] THEN 1 ELSE 0) + 65536) % 65536,
      (x[2] - y[2] + 65536) % 65536>>

\* x < y on u32
Lt32(x, y) == x[1] < y[1] \/ (x[1] = y[1] /\ x[2] < y[2])

-----------------------------------------------------------------------------
(* u64 as five 13-bit digits, least significant first (the fifth holds 12   *)
(* bits).                                                                   *)

\* the u64 of five digit sums, each below 2^30: carries propagated, the
\* result reduced modulo 2^64
U64Carry(a0, a1, a2, a3, a4) ==
    LET k1 == a1 + (a0 \div 8192)
        k2 == a2 + (k1 \div 8192)
        k3 == a3 + (k2 \div 8192)
        k4 == a4 + (k3 \div 8192)
    IN  <<a0 % 8192, k1 % 8192, k2 % 8192, k3 % 8192, k4 % 4096>>

\* u32 as u64
U64From32(w) ==
    <<w[2] % 8192, (w[2] \div 8192) + ((w[1] % 1024) * 8), w[1] \div 1024, 0, 0>>

\* u64 as u32 (truncating)
U64To32(x) ==
    <<(x[2] \div 8) + ((x[3] % 64) * 1024), x[1] + ((x[2] % 8) * 8192)>>

\* u64 + u64, wrapping
U64Add(x, y) == U64Carry(x[1] + y[1], x[2] + y[2], x[3] + y[3], x[4] + y[4], x[5] + y[5])

\* u64 * u64, wrapping
U64Mul(x, y) ==
    U64Carry(x[1] * y[1],
             (x[1] * y[2]) + (x[2] * y[1]),
             (x[1] * y[3]) + (x[2] * y[2]) + (x[3] * y[1]),
             (x[1] * y[4]) + (x[2] * y[3]) + (x[3] * y[2]) + (x[4] * y[1]),
             (x[1] * y[5]) + (x[2] * y[4]) + (x[3] * y[3]) + (x[4] * y[2])
                 + ((x[5] % 4096) * y[1]))

\* u64 >> (13 * k), k digits dropped
U64DropDigits(x, k) ==
    SubSeq(x \o <<0, 0, 0, 0, 0>>, k + 1, k + 5)

\* u64 >> b for 0 <= b < 13
U64ShrBits(x, b) ==
    <<(x[1] \div (2 ^ b)) + ((x[2] % (2 ^ b)) * (2 ^ (13 - b))),
      (x[2] \div (2 ^ b)) + ((x[3] % (2 ^ b)) * (2 ^ (13 - b))),
      (x[3] \div (2 ^ b)) + ((x[4] % (2 ^ b)) * (2 ^ (13 - b))),
      (x[4] \div (2 ^ b)) + ((x[5] % (2 ^ b)) * (2 ^ (13 - b))),
      x[5] \div (2 ^ b)>>

\* u64 >> n, 0 <= n < 64
U64Shr(x, n) == U64ShrBits(U64DropDigits(x, n \div 13), n % 13)

\* x < y on u64
RECURSIVE U64LtFrom(_, _, _)
U64LtFrom(x, y, i) ==
    IF i = 0 THEN FALSE
    ELSE IF x[i] # y[i] THEN x[i] < y[i]
    ELSE U64LtFrom(x, y, i - 1)

U64Lt(x, y) == U64LtFrom(x, y, 5)

\* u64::saturating_sub
U64SatSub(x, y) ==
    IF U64Lt(x, y) THEN <<0, 0, 0, 0, 0>>
    ELSE LET b1 == IF x[1] < y[1] THEN 1 ELSE 0
             b2 == IF x[2] - b1 < y[2] THEN 1 ELSE 0
             b3 == IF x[3] - b2 < y[3] THEN 1 ELSE 0
             b4 == IF x[4] - b3 < y[4] THEN 1 ELSE 0
         IN  <<(x[1] - y[1]) + (8192 * b1), (x[2] - b1 - y[2]) + (8192 * b2),
               (x[3] - b2 - y[3]) + (8192 * b3), (x[4] - b3 - y[4]) + (8192 * b4),
               x[5] - b4 - y[5]>>

-----------------------------------------------------------------------------
(* rng/chacha20.rs and rng/chacha20drbg.rs: the ChaCha20 block function.    *)

CHACHA20_CONSTANTS ==
    << <<24944, 30821>>,    \* 0x6170_7865
       <<13088, 25710>>,    \* 0x3320_646e
       <<31074, 11570>>,    \* 0x7962_2d32
       <<27424, 25972>> >>  \* 0x6b20_6574

\* a = a + b; d = (d ^ a) <<< r, on the four words w = <<a, b, c, d>>
qr_ad_rot(a1, b, c, d, r) == <<a1, b, c, rotate_left(Xor32(d, a1), r)>>
qr_ad(w, r) == qr_ad_rot(wrapping_add(w[1], w[2]), w[2], w[3], w[4], r)

\* c = c + d; b = (b ^ c) <<< r
qr_cb_rot(a, b, c1, d, r) == <<a, rotate_left(Xor32(b, c1), r), c1, d>>
qr_cb(w, r) == qr_cb_rot(w[1], w[2], wrapping_add(w[3], w[4]), w[4], r)

qr_store(state, a, b, c, d, w) ==
    [state EXCEPT ![a + 1] = w[1], ![b + 1] = w[2], ![c + 1] = w[3], ![d + 1] = w[4]]

\* state is a tuple of 16 words; the source's index i is position i + 1
quarter_round(state, a, b, c, d) ==
    qr_store(state, a, b, c, d,
             qr_cb(qr_ad(qr_cb(qr_ad(<<state[a + 1], state[b + 1], state[c + 1], state[d + 1]>>,
                                     16), 12), 8), 7))

\* one iteration of the loop of rounds: 4 column and 4 diagonal quarter rounds
column_rounds(state) ==
    quarter_round(quarter_round(quarter_round(quarter_round(state,
        0, 4, 8, 12), 1, 5, 9, 13), 2, 6, 10, 14), 3, 7, 11, 15)

diagonal_rounds(state) ==
    quarter_round(quarter_round(quarter_round(quarter_round(state,
        0, 5, 10, 15), 1, 6, 11, 12), 2, 7, 8, 13), 3, 4, 9, 14)

double_round(state, i) == diagonal_rounds(column_rounds(state))

rounds(state) == FoldRange(double_round, state, 1, 10)

\* the feed-forward: word i of the result is mixed[i] + original[i]
feed_forward(mixed, original) ==
    <<wrapping_add(mixed[1], original[1]), wrapping_add(mixed[2], original[2]),
      wrapping_add(mixed[3], original[3]), wrapping_add(mixed[4], original[4]),
      wrapping_add(mixed[5], original[5]), wrapping_add(mixed[6], original[6]),
      wrapping_add(mixed[7], original[7]), wrapping_add(mixed[8], original[8]),
      wrapping_add(mixed[9], original[9]), wrapping_add(mixed[10], original[10]),
      wrapping_add(mixed[11], original[11]), wrapping_add(mixed[12], original[12]),
      wrapping_add(mixed[13], original[13]), wrapping_add(mixed[14], original[14]),
      wrapping_add(mixed[15], original[15]), wrapping_add(mixed[16], original[16])>>

\* the 64 output bytes of a state of 16 words, little-endian
serialize(state) ==
    to_le_bytes(state[1]) \o to_le_bytes(state[2]) \o to_le_bytes(state[3])
    \o to_le_bytes(state[4]) \o to_le_bytes(state[5]) \o to_le_bytes(state[6])
    \o to_le_bytes(state[7]) \o to_le_bytes(state[8]) \o to_le_bytes(state[9])
    \o to_le_bytes(state[10]) \o to_le_bytes(state[11]) \o to_le_bytes(state[12])
    \o to_le_bytes(state[13]) \o to_le_bytes(state[14]) \o to_le_bytes(state[15])
    \o to_le_bytes(state[16])

permute(original) == serialize(feed_forward(rounds(original), original))

\* word i (from 0) of a byte string
le_word(bytes, i) == from_le_bytes(SubSeq(bytes, 4 * i + 1, 4 * i + 4))

\* chacha20.rs block(key, counter, nonce): key 32 bytes, counter u32, nonce 12 bytes
block(key, counter, nonce) ==
    permute(CHACHA20_CONSTANTS
            \o <<le_word(key, 0), le_word(key, 1), le_word(key, 2), le_word(key, 3),
                 le_word(key, 4), le_word(key, 5), le_word(key, 6), le_word(key, 7)>>
            \o <<counter>>
            \o <<le_word(nonce, 0), le_word(nonce, 1), le_word(nonce, 2)>>)

\* chacha20drbg.rs chacha20_block(key, counter, nonce): key is a U256, whose
\* field .0 holds the 32 key bytes
chacha20_block(key, counter, nonce) == block(key, counter, nonce)

Min(a, b) == IF a < b THEN a ELSE b

-----------------------------------------------------------------------------
(* rng/chacha20.rs: xor, the ChaCha20 stream cipher.                        *)

\* for i in 0..take { output[offset + i] = input[offset + i] ^ keystream[i] }
xor_take(input, keystream, offset, take) ==
    FoldRange(LAMBDA output, i : Append(output, Xor8(input[offset + i + 1], keystream[i + 1])),
              <<>>, 0, take - 1)

\* the while loop of xor: the output bytes from offset on
RECURSIVE xor_loop(_, _, _, _, _)
xor_loop(key, nonce, block_counter, input, offset) ==
    IF offset >= Len(input) THEN <<>>
    ELSE Let1(LAMBDA keystream : xor_take(input, keystream, offset,
                                          Min(Len(input) - offset, 64)),
              block(key, block_counter, nonce))
         \o xor_loop(key, nonce, wrapping_add(block_counter, <<0, 1>>), input,
                     offset + Min(Len(input) - offset, 64))

\* xor(key, nonce, counter, input, output): the bytes written to output
xor(key, nonce, counter, input) == xor_loop(key, nonce, counter, input, 0)

-----------------------------------------------------------------------------
(* encryption/poly1305/mac.rs: Poly1305 with five 26-bit limbs.             *)

Mask26 == <<1023, 65535>>       \* 0x3ffffff
Zero32 == <<0, 0>>

\* Poly1305::new: clamping of r and its split into limbs
clamped_limbs(r0, r1, r2, r3) ==
    <<And32(r0, Mask26),
      And32(Or32(Shr32(r0, 26), Shl32(r1, 6)), Mask26),
      And32(Or32(Shr32(r1, 20), Shl32(r2, 12)), Mask26),
      And32(Or32(Shr32(r2, 14), Shl32(r3, 18)), Mask26),
      And32(Shr32(r3, 8), Mask26)>>

Poly1305_new(one_time_key) ==
    [r |-> clamped_limbs(And32(le_word(one_time_key, 0), <<4095, 65535>>),
                         And32(le_word(one_time_key, 1), <<4095, 65532>>),
                         And32(le_word(one_time_key, 2), <<4095, 65532>>),
                         And32(le_word(one_time_key, 3), <<4095, 65532>>)),
     h |-> <<Zero32, Zero32, Zero32, Zero32, Zero32>>,
     s |-> SubSeq(one_time_key, 17, 32)]

\* update_block: the 17-byte padded block
padded_block(blk) ==
    blk \o <<1>> \o SubSeq(<<0, 0, 0, 0, 0, 0, 0, 0, 0, 0, 0, 0, 0, 0, 0, 0>>, 1, 16 - Len(blk))

\* update_block: m0..m4 from t0..t4
message_limbs(t0, t1, t2, t3, t4) ==
    <<And32(t0, Mask26),
      And32(Or32(Shr32(t0, 26), Shl32(t1, 6)), Mask26),
      And32(Or32(Shr32(t1, 20), Shl32(t2, 12)), Mask26),
      And32(Or32(Shr32(t2, 14), Shl32(t3, 18)), Mask26),
      And32(Or32(Shr32(t3, 8), Shl32(t4, 24)), Mask26)>>

block_limbs(padded) ==
    message_limbs(le_word(padded, 0), le_word(padded, 1), le_word(padded, 2),
                  le_word(padded, 3), <<0, padded[17]>>)

\* self.h[i] = self.h[i].wrapping_add(m_i)
add_limbs(h, m) ==
    <<wrapping_add(h[1], m[1]), wrapping_add(h[2], m[2]), wrapping_add(h[3], m[3]),
      wrapping_add(h[4], m[4]), wrapping_add(h[5], m[5])>>

\* the five limbs as u64
limbs_as_u64(x) ==
    <<U64From32(x[1]), U64From32(x[2]), U64From32(x[3]), U64From32(x[4]), U64From32(x[5])>>

U64Five == <<5, 0, 0, 0, 0>>

\* r1_5 .. r4_5 (the first entry, r0 * 5, is not used)
limbs_times_5(r) ==
    <<U64Mul(r[1], U64Five), U64Mul(r[2], U64Five), U64Mul(r[3], U64Five),
      U64Mul(r[4], U64Five), U64Mul(r[5], U64Five)>>

U64Sum5(a, b, c, d, e) == U64Add(U64Add(U64Add(U64Add(a, b), c), d), e)

\* d0 .. d4 of update_block, from h0..h4, r0..r4 and r1_5..r4_5 as u64
limb_products(h, r, r5) ==
    <<U64Sum5(U64Mul(h[1], r[1]), U64Mul(h[2], r5[5]), U64Mul(h[3], r5[4]),
              U64Mul(h[4], r5[3]), U64Mul(h[5], r5[2])),
      U64Sum5(U64Mul(h[1], r[2]), U64Mul(h[2], r[1]), U64Mul(h[3], r5[5]),
              U64Mul(h[4], r5[4]), U64Mul(h[5], r5[3])),
      U64Sum5(U64Mul(h[1], r[3]), U64Mul(h[2], r[2]), U64Mul(h[3], r[1]),
              U64Mul(h[4], r5[5]), U64Mul(h[5], r5[4])),
      U64Sum5(U64Mul(h[1], r[4]), U64Mul(h[2], r[3]), U64Mul(h[3], r[2]),
              U64Mul(h[4], r[1]), U64Mul(h[5], r5[5])),
      U64Sum5(U64Mul(h[1], r[5]), U64Mul(h[2], r[4]), U64Mul(h[3], r[3]),
              U64Mul(h[4], r[2]), U64Mul(h[5], r[1]))>>

\* (d & 0x3ffffff) as u32
low26(d) == U64To32(<<d[1], d[2], 0, 0, 0>>)

\* the last two carries of update_block:
\*   self.h[0] += (c * 5) as u32 with c = d4 >> 26, then
\*   c = self.h[0] >> 26; self.h[0] &= 0x3ffffff; self.h[1] += c
wrap_carry(h0, h1, h2, h3, h4) ==
    <<And32(h0, Mask26), wrapping_add(h1, Shr32(h0, 26)), h2, h3, h4>>

\* the carry chain of update_block over d0..d4
carry_products(d0, d1, d2, d3, d4) ==
    wrap_carry(wrapping_add(low26(d0), U64To32(U64Mul(U64Shr(d4, 26), U64Five))),
               low26(d1), low26(d2), low26(d3), low26(d4))

carry_d4(d0, d1, d2, d3, d4) == carry_products(d0, d1, d2, d3, U64Add(d4, U64Shr(d3, 26)))
carry_d3(d0, d1, d2, d3, d4) == carry_d4(d0, d1, d2, U64Add(d3, U64Shr(d2, 26)), d4)
carry_d2(d0, d1, d2, d3, d4) == carry_d3(d0, d1, U64Add(d2, U64Shr(d1, 26)), d3, d4)
carry_d1(d) == carry_d2(d[1], U64Add(d[2], U64Shr(d[1], 26)), d[3], d[4], d[5])

multiply_reduce(h, r) ==
    carry_d1(limb_products(limbs_as_u64(h), limbs_as_u64(r),
                           limbs_times_5(limbs_as_u64(r))))

update_block(self, blk) ==
    [self EXCEPT !.h = multiply_reduce(add_limbs(self.h, block_limbs(padded_block(blk))),
                                       self.r)]

\* c = h[i] >> 26; h[i] &= 0x3ffffff; h[j] += c * mult   (limbs numbered from 1)
propagate(h, i, j, mult) ==
    [h EXCEPT ![i] = And32(h[i], Mask26),
              ![j] = wrapping_add(h[j], <<0, Shr32(h[i], 26)[2] * mult>>)]

\* finalize: the final carry propagation h1 -> h2 -> h3 -> h4 -> h0 -> h1
final_carries(h) ==
    propagate(propagate(propagate(propagate(propagate(h, 2, 3, 1), 3, 4, 1), 4, 5, 1),
                        5, 1, 5), 1, 2, 1)

\* finalize: g = h + 5 limb by limb; g_raw is the limb before masking.
\* The result holds the five limbs of g followed by the last carry.
RECURSIVE add_5_from(_, _, _, _)
add_5_from(h, i, g_raw, g) ==
    IF i = 5 THEN Append(g, And32(g_raw, Mask26)) \o <<Shr32(g_raw, 26)>>
    ELSE add_5_from(h, i + 1, wrapping_add(h[i + 1], Shr32(g_raw, 26)),
                    Append(g, And32(g_raw, Mask26)))

add_5(h) == add_5_from(h, 1, wrapping_add(h[1], <<0, 5>>), <<>>)

select_limb(h_i, g_i, mask) == Or32(And32(h_i, Not32(mask)), And32(g_i, mask))

\* *h_i = (*h_i & !mask) | (*g_i & mask)
select_limbs(h, g, mask) ==
    <<select_limb(h[1], g[1], mask), select_limb(h[2], g[2], mask),
      select_limb(h[3], g[3], mask), select_limb(h[4], g[4], mask),
      select_limb(h[5], g[5], mask)>>

\* conditional subtraction of 2^130 - 5
reduce_fully(h, g) == select_limbs(h, g, wrapping_sub(Zero32, g[6]))

\* h0..h3 packed from the limbs and serialised
h_bytes(h) ==
    to_le_bytes(Or32(h[1], Shl32(h[2], 26)))
    \o to_le_bytes(Or32(Shr32(h[2], 6), Shl32(h[3], 20)))
    \o to_le_bytes(Or32(Shr32(h[3], 12), Shl32(h[4], 14)))
    \o to_le_bytes(Or32(Shr32(h[4], 18), Shl32(h[5], 8)))

\* tag = h_bytes + s modulo 2^128, byte by byte; sum is the u16 of byte i
RECURSIVE add_s_from(_, _, _, _, _)
add_s_from(hb, s, i, sum, tag) ==
    IF i = 16 THEN Append(tag, sum % 256)
    ELSE add_s_from(hb, s, i + 1, hb[i + 1] + s[i + 1] + (sum \div 256),
                    Append(tag, sum % 256))

add_s(hb, s) == add_s_from(hb, s, 1, hb[1] + s[1], <<>>)

finalize_carried(h, s) == add_s(h_bytes(reduce_fully(h, add_5(h))), s)

finalize(self) == finalize_carried(final_carries(self.h), self.s)

-----------------------------------------------------------------------------
(* encryption/poly1305/core.rs: ChaCha20-Poly1305.                          *)

AAD == <<>>

Zeros(n) == SubSeq(<<0, 0, 0, 0, 0, 0, 0, 0, 0, 0, 0, 0, 0, 0, 0, 0,
                     0, 0, 0, 0, 0, 0, 0, 0, 0, 0, 0, 0, 0, 0, 0, 0>>, 1, n)

pad16(buf) == IF Len(buf) % 16 # 0 THEN buf \o Zeros(16 - (Len(buf) % 16)) ELSE buf

\* (n as u64).to_le_bytes() for a length below 2^16
len_le_bytes(n) == <<n % 256, n \div 256, 0, 0, 0, 0, 0, 0>>

mac_data(ciphertext) ==
    pad16(pad16(AAD) \o ciphertext) \o len_le_bytes(Len(AAD)) \o len_le_bytes(Len(ciphertext))

\* msg.chunks(16): chunk number i, from 0
chunk(msg, i) == SubSeq(msg, (16 * i) + 1, Min(Len(msg), 16 * (i + 1)))

absorb_chunks(mac, msg) ==
    FoldRange(LAMBDA m, i : update_block(m, chunk(msg, i)), mac, 0, ((Len(msg) + 15) \div 16) - 1)

auth(one_time_key, msg) ==
    Let1(finalize, Let1(LAMBDA mac : absorb_chunks(mac, msg), Poly1305_new(one_time_key)))

one_time_key(key, nonce) == SubSeq(block(key, <<0, 0>>, nonce), 1, 32)

encrypt_tagged(otk, ciphertext) ==
    [ciphertext |-> ciphertext, tag |-> auth(otk, mac_data(ciphertext))]

\* encrypt with the keystream taken from block counter 0
encrypt_counter0(key, nonce, plaintext) ==
    Let2(encrypt_tagged, one_time_key(key, nonce), xor(key, nonce, <<0, 0>>, plaintext))

\* encrypt(key, nonce, plaintext, ciphertext, tag) with buffers of equal
\* length: the ciphertext and the tag written
encrypt(key, nonce, plaintext) ==
    Let2(encrypt_tagged, one_time_key(key, nonce), xor(key, nonce, <<0, 1>>, plaintext))

\* diff |= expected_tag[i] ^ tag[i] over the first 15 bytes only
tag_diff_15(expected_tag, tag) ==
    FoldRange(LAMBDA diff, i : Or8(diff, Xor8(expected_tag[i], tag[i])), 0, 1, 15)

\* diff |= expected_tag[i] ^ tag[i] for i in 0..16
tag_diff(expected_tag, tag) ==
    FoldRange(LAMBDA diff, i : Or8(diff, Xor8(expected_tag[i], tag[i])), 0, 1, 16)

\* decrypt that writes the plaintext before it looks at diff
decrypt_write_first(key, nonce, ciphertext, plaintext, diff) ==
    [result |-> IF diff # 0 THEN "AuthenticationFailed" ELSE "Ok",
     plaintext |-> xor(key, nonce, <<0, 1>>, ciphertext)]

\* decrypt from the tag comparison on
decrypt_verified(key, nonce, ciphertext, plaintext, diff) ==
    IF diff # 0
    THEN [result |-> "AuthenticationFailed", plaintext |-> plaintext]
    ELSE [result |-> "Ok", plaintext |-> xor(key, nonce, <<0, 1>>, ciphertext)]

\* decrypt that does not compare the lengths of its buffers
decrypt_any_length(key, nonce, ciphertext, tag, plaintext) ==
    Let1(LAMBDA diff : decrypt_verified(key, nonce, ciphertext, plaintext, diff),
         Let2(tag_diff, Let2(auth, one_time_key(key, nonce), mac_data(ciphertext)), tag))

\* decrypt(key, nonce, ciphertext, tag, plaintext): the result and the
\* contents of the plaintext buffer on return
decrypt(key, nonce, ciphertext, tag, plaintext) ==
    IF Len(plaintext) # Len(ciphertext)
    THEN [result |-> "InvalidLength", plaintext |-> plaintext]
    ELSE Let1(LAMBDA diff : decrypt_verified(key, nonce, ciphertext, plaintext, diff),
              Let2(tag_diff, Let2(auth, one_time_key(key, nonce), mac_data(ciphertext)), tag))

-----------------------------------------------------------------------------
(* recovery/sss/field.rs: FieldElement, arithmetic in GF(256).              *)

\* impl Add: self.0 ^ rhs.0
FieldElement_add(self, rhs) == Xor8(self, rhs)

\* impl Mul: one turn of the while loop doubles self, with reduction by 0x1B
mul_double(self) ==
    IF self >= 128 THEN Xor8((self * 2) % 256, 27) ELSE self * 2

RECURSIVE mul_loop(_, _, _)
mul_loop(self, rhs, res) ==
    IF rhs = 0 THEN res
    ELSE mul_loop(mul_double(self), rhs \div 2,
                  IF rhs % 2 # 0 THEN Xor8(res, self) ELSE res)

\* impl Mul that looks at the low seven bits of rhs only
FieldElement_mul_7_bits(self, rhs) == mul_loop(self, rhs % 128, 0)

FieldElement_mul(self, rhs) == mul_loop(self, rhs, 0)

\* invert with one multiplication fewer: self^253
invert_252(self) ==
    FoldRange(LAMBDA t, i : FieldElement_mul(t, self), self, 1, 252)

\* invert: self^254 by 253 multiplications; the assertion fails on zero
invert(self) ==
    IF self = 0 THEN "panic"
    ELSE FoldRange(LAMBDA t, i : FieldElement_mul(t, self), self, 1, 253)

\* impl Div: self * rhs.invert()
FieldElement_div(self, rhs) == FieldElement_mul(self, invert(rhs))

\* from_polynomial: Horner's rule over the coefficients in reverse
from_polynomial(coeffs, x) ==
    FoldRange(LAMBDA acc, k : FieldElement_add(FieldElement_mul(acc, x),
                                               coeffs[Len(coeffs) + 1 - k]),
              0, 1, Len(coeffs))

\* lagrange_at_zero: num and den of the basis polynomial of point i
lagrange_num(points, i) ==
    FoldRange(LAMBDA num, j : IF i # j THEN FieldElement_mul(num, points[j][1]) ELSE num,
              1, 1, Len(points))

lagrange_den(points, i) ==
    FoldRange(LAMBDA den, j : IF i # j
                              THEN FieldElement_mul(FieldElement_add(points[j][1],
                                                                     points[i][1]), den)
                              ELSE den,
              1, 1, Len(points))

lagrange_at_zero(points) ==
    FoldRange(LAMBDA acc, i :
                  FieldElement_add(FieldElement_mul(FieldElement_div(lagrange_num(points, i),
                                                                     lagrange_den(points, i)),
                                                    points[i][2]),
                                   acc),
              0, 1, Len(points))

-----------------------------------------------------------------------------
(* recovery/sss/core.rs: split and combine.                                 *)

Ok(value) == [ok |-> TRUE, value |-> value]
Err(error) == [ok |-> FALSE, error |-> error]

\* split: the polynomial of the secret byte at index (from 0), the bytes that
\* r.fill_bytes returns being those of random, in order
split_coeffs(secret, threshold, random, index) ==
    <<secret[index + 1]>>
    \o SubSeq(random, (index * (threshold - 1)) + 1, (index + 1) * (threshold - 1))

\* split: the data of the share with the given id
split_data(secret, threshold, random, id) ==
    FoldRange(LAMBDA data, index :
                  Append(data, from_polynomial(split_coeffs(secret, threshold, random, index),
                                               id)),
              <<>>, 0, Len(secret) - 1)

split(secret, threshold, share_count, random) ==
    IF secret = <<>> THEN Err("InvalidShare")
    ELSE IF threshold = 0 \/ threshold > share_count THEN Err("InvalidThreshold")
    ELSE Ok(FoldRange(LAMBDA shares, id :
                          Append(shares, [id |-> id, threshold |-> threshold,
                                          data |-> split_data(secret, threshold, random, id)]),
                      <<>>, 1, share_count))

\* combine: the checks on the first threshold shares, from share k on
RECURSIVE combine_check(_, _, _, _, _)
combine_check(shares, threshold, secret_len, k, seen) ==
    IF k > threshold THEN "Ok"
    ELSE IF shares[k].id = 0 THEN "InvalidShare"
    ELSE IF shares[k].id \in seen THEN "DuplicateShareId"
    ELSE IF shares[k].threshold # threshold \/ Len(shares[k].data) # secret_len
    THEN "InconsistentShares"
    ELSE combine_check(shares, threshold, secret_len, k + 1, seen \cup {shares[k].id})

\* combine: the points (id, data[index]) of the first threshold shares
combine_points(shares, threshold, index) ==
    FoldRange(LAMBDA points, k : Append(points, <<shares[k].id, shares[k].data[index]>>),
              <<>>, 1, threshold)

combine_secret(shares, threshold, secret_len) ==
    FoldRange(LAMBDA secret, index :
                  Append(secret, Let1(lagrange_at_zero, combine_points(shares, threshold, index))),
              <<>>, 1, secret_len)

combine_checked(shares, threshold, secret_len, check) ==
    IF check # "Ok" THEN Err(check)
    ELSE Ok(combine_secret(shares, threshold, secret_len))

\* combine that goes on with fewer shares than the threshold
combine_any_count(shares, threshold) ==
    combine_checked(shares, Min(threshold, Len(shares)), Len(shares[1].data),
                    combine_check(shares, Min(threshold, Len(shares)),
                                  Len(shares[1].data), 1, {}))

\* combine once the slice is known not to be empty
combine_counted(shares, threshold) ==
    IF Len(shares) < threshold THEN Err("NotEnoughShares")
    ELSE combine_checked(shares, threshold, Len(shares[1].data),
                         combine_check(shares, threshold, Len(shares[1].data), 1, {}))

combine(shares) ==
    IF shares = <<>> THEN Err("NotEnoughShares")
    ELSE combine_counted(shares, shares[1].threshold)

-----------------------------------------------------------------------------
(* rng/csprng.rs: Csprng.                                                   *)

MaxCalls == 2                   \* fill_bytes calls made on each generator

Seeds == { [i \in 1..32 |-> 66], [i \in 1..32 |-> i - 1] }

RequestLens == {0, 1, 65}       \* lengths of the buffers passed to fill_bytes

NoGen == [key |-> <<>>, nonce |-> <<>>, counter |-> <<0, 0>>]


\* Csprng::from_seed: the value returned
from_seed(seed) ==
    [key |-> seed, nonce |-> [i \in 1..12 |-> 0], counter |-> <<0, 0>>]

\* the assignments of rekey, blk being the block it generated
rekey_from(self, blk) ==
    [self EXCEPT !.counter = wrapping_add(self.counter, <<0, 1>>),
                 !.key = SubSeq(blk, 1, 32)]

\* a rekey that takes the new key and leaves the counter where it is
rekey_keeping_counter(self) ==
    [self EXCEPT !.key = SubSeq(chacha20_block(self.key, self.counter, self.nonce), 1, 32)]

\* Csprng::rekey
rekey(self) == rekey_from(self, chacha20_block(self.key, self.counter, self.nonce))

\* out[offset..offset + to_copy].copy_from_slice(&block[..to_copy])
copy_from_slice(out, offset, to_copy, blk) ==
    SubSeq(out, 1, offset) \o SubSeq(blk, 1, to_copy)
    \o SubSeq(out, offset + to_copy + 1, Len(out))

\* the while loop of fill_bytes, from the given offset on
RECURSIVE fill_loop(_, _, _)
fill_iteration(self, out, offset, blk) ==
    fill_loop([self EXCEPT !.counter = wrapping_add(self.counter, <<0, 1>>)],
              copy_from_slice(out, offset, Min(64, Len(out) - offset), blk),
              offset + Min(64, Len(out) - offset))

fill_loop(self, out, offset) ==
    IF offset < Len(out)
    THEN fill_iteration(self, out, offset,
                        chacha20_block(self.key, self.counter, self.nonce))
    ELSE [gen |-> self, out |-> out]

\* self.rekey() at the end of fill_bytes, r being the state after the loop
fill_rekey(r) == [gen |-> rekey(r.gen), out |-> r.out]

\* a fill_bytes that returns early on an empty buffer
fill_bytes_skipping_empty(self, out) ==
    IF Len(out) = 0 THEN [gen |-> self, out |-> out]
    ELSE fill_rekey(fill_loop(self, out, 0))

\* Csprng::fill_bytes: the generator and the buffer after the call
fill_bytes(self, out) == fill_rekey(fill_loop(self, out, 0))

InitRng ==
    /\ rngSeed \in Seeds
    /\ rng = [g \in 1..2 |-> NoGen]
    /\ reqs = <<>>
    /\ outs = [g \in 1..2 |-> <<>>]
    /\ lastCall = [g |-> 0, key |-> <<>>, counter |-> <<0, 0>>, len |-> 0]
    /\ IdleBut("rng")

\* a constructor that draws its key from the operating system whatever the
\* seed it is given
FromOsIgnoringSeed(g) ==
    /\ rng[g] = NoGen
    /\ \E s \in Seeds : rng' = [rng EXCEPT ![g] = from_seed(s)]
    /\ UNCHANGED <<rngSeed, reqs, outs, lastCall>>
    /\ UnchangedBut("rng")

\* let rng_g = Csprng::from_seed(seed)
FromSeed(g) ==
    /\ rng[g] = NoGen
    /\ rng' = [rng EXCEPT ![g] = from_seed(rngSeed)]
    /\ UNCHANGED <<rngSeed, reqs, outs, lastCall>>
    /\ UnchangedBut("rng")

\* the return of a fill_bytes call on generator g, r being its result
FillBytesReturn(g, len, r) ==
    /\ rng' = [rng EXCEPT ![g] = r.gen]
    /\ outs' = [outs EXCEPT ![g] = Append(outs[g], r.out)]
    /\ lastCall' = [g |-> g, key |-> rng[g].key,
                    counter |-> rng[g].counter, len |-> len]

\* rng_g.fill_bytes(&mut [0u8; len]), the k-th request of generator g being
\* the k-th length of the common request pattern
FillBytes(g, len) ==
    /\ rng[g] # NoGen
    /\ Len(outs[g]) < MaxCalls
    /\ IF Len(outs[g]) < Len(reqs)
       THEN len = reqs[Len(outs[g]) + 1] /\ reqs' = reqs
       ELSE reqs' = Append(reqs, len)
    /\ FillBytesReturn(g, len, fill_bytes(rng[g], [i \in 1..len |-> 0]))
    /\ UNCHANGED rngSeed
    /\ UnchangedBut("rng")

NextRng ==
    \/ \E g \in 1..2 : FromSeed(g)
    \/ \E g \in 1..2 : \E len \in RequestLens : FillBytes(g, len)

SpecRng == InitRng /\ [][NextRng]_vars

\* the block of generator state (key, counter) that holds byte i (from 1) of
\* an output
\* the keystream block that output block b (from 0) of a call is taken from
OutputBlock(key, counter, b) ==
    chacha20_block(key, wrapping_add(counter, <<0, b>>), Zeros(12))

\* C5: after every fill_bytes call, the empty one included, the key is the
\* first 32 bytes of the block computed under the key the call started with,
\* at the counter after the call's last output block; the counter has moved
\* past that block, every output byte of the call was produced under the
\* starting key, and the key left in the state is another one.
C5_RekeyAfterFill ==
    lastCall.g # 0 =>
        LET gen     == rng[lastCall.g]
            out     == outs[lastCall.g][Len(outs[lastCall.g])]
            nblocks == (lastCall.len + 63) \div 64
            ctr     == wrapping_add(lastCall.counter, <<0, nblocks>>)
        IN  /\ gen.key = SubSeq(chacha20_block(lastCall.key, ctr, gen.nonce), 1, 32)
            /\ gen.counter = wrapping_add(ctr, <<0, 1>>)
            /\ Len(out) = lastCall.len
            /\ \A b \in 0..(nblocks - 1) :
                   SubSeq(out, (64 * b) + 1, Min(Len(out), 64 * (b + 1)))
                     = SubSeq(OutputBlock(lastCall.key, lastCall.counter, b),
                              1, Min(64, Len(out) - (64 * b)))
            /\ gen.key # lastCall.key

\* a fill_bytes call with an empty buffer has returned
C5_Witness == lastCall.g # 0 /\ lastCall.len = 0

-----------------------------------------------------------------------------
(* A ChaCha20-Poly1305 exchange: a sender calls encrypt, the ciphertext and *)
(* the tag travel over a channel on which one bit may be flipped, and the   *)
(* receiver calls decrypt into a buffer of its own.                         *)

MaxTamperOffset == 2    \* bytes at each end of the ciphertext that may be hit

AeadKeys ==
    { <<0, 1, 2, 3, 4, 5, 6, 7, 8, 9, 10, 11, 12, 13, 14, 15, 16, 17, 18, 19, 20,
        21, 22, 23, 24, 25, 26, 27, 28, 29, 30, 31>>,
      <<128, 129, 130, 131, 132, 133, 134, 135, 136, 137, 138, 139, 140, 141, 142,
        143, 144, 145, 146, 147, 148, 149, 150, 151, 152, 153, 154, 155, 156, 157,
        158, 159>> }

AeadNonces == { <<7, 0, 0, 0, 64, 65, 66, 67, 68, 69, 70, 71>> }

PlainLens == {0, 1, 17, 65}

\* the plaintext of n bytes
Plain(n) == FoldRange(LAMBDA p, i : Append(p, ((37 * i) + 11) % 256), <<>>, 1, n)

\* the contents of the receiver's buffer before decrypt: n bytes 0xAA
Stale(n) == FoldRange(LAMBDA p, i : Append(p, 170), <<>>, 1, n)

\* the byte positions of an n-byte ciphertext the channel may hit
TamperedBytes(n) == { i \in 1..n : i <= MaxTamperOffset \/ i > n - MaxTamperOffset }

\* byte with bit b flipped
FlipBit(byte, b) == Xor8(byte, 2 ^ b)

InitAead ==
    /\ aead \in { [phase |-> "keyed", key |-> k, nonce |-> n, plain |-> <<>>,
                   sent |-> <<>>, ciphertext |-> <<>>, tag |-> <<>>,
                   buffer |-> <<>>, plaintext |-> <<>>, result |-> "None"]
                  : k \in AeadKeys, n \in AeadNonces }
    /\ IdleBut("aead")

EncryptReturn(plaintext, r) ==
    aead' = [aead EXCEPT !.phase = "sent", !.plain = plaintext, !.sent = r,
                         !.ciphertext = r.ciphertext, !.tag = r.tag]

\* encrypt(&key, &nonce, &plaintext, &mut ciphertext, &mut tag) with a
\* plaintext of n bytes and a ciphertext buffer of clen bytes
Encrypt(n, clen) ==
    /\ aead.phase = "keyed"
    /\ IF n # clen
       THEN aead' = [aead EXCEPT !.phase = "panicked"]
       ELSE EncryptReturn(Plain(n), Let1(LAMBDA p : encrypt(aead.key, aead.nonce, p), Plain(n)))
    /\ UnchangedBut("aead")

\* the channel flips bit b of byte i of the ciphertext
FlipCiphertextBit(i, b) ==
    /\ aead.phase = "sent"
    /\ i \in TamperedBytes(Len(aead.ciphertext))
    /\ aead' = [aead EXCEPT !.phase = "tampered",
                            !.ciphertext[i] = FlipBit(aead.ciphertext[i], b)]
    /\ UnchangedBut("aead")

\* the channel flips bit b of byte i of the tag
FlipTagBit(i, b) ==
    /\ aead.phase = "sent"
    /\ aead' = [aead EXCEPT !.phase = "tampered", !.tag[i] = FlipBit(aead.tag[i], b)]
    /\ UnchangedBut("aead")

DecryptReturn(buffer, r) ==
    aead' = [aead EXCEPT !.phase = "done", !.buffer = buffer,
                         !.plaintext = r.plaintext, !.result = r.result]

\* decrypt(&key, &nonce, &ciphertext, &tag, &mut plaintext) into a buffer of
\* blen bytes
Decrypt(blen) ==
    /\ aead.phase \in {"sent", "tampered"}
    /\ DecryptReturn(Stale(blen),
                     Let1(LAMBDA buffer : decrypt(aead.key, aead.nonce, aead.ciphertext,
                                                  aead.tag, buffer),
                          Stale(blen)))
    /\ UnchangedBut("aead")

NextAead ==
    \/ \E n \in PlainLens : \E clen \in {n, n + 1} : Encrypt(n, clen)
    \/ \E i \in 1..65 : \E b \in 0..7 : FlipCiphertextBit(i, b)
    \/ \E i \in 1..16 : \E b \in 0..7 : FlipTagBit(i, b)
    \/ \E blen \in {Len(aead.ciphertext), Len(aead.ciphertext) + 1} : Decrypt(blen)

SpecAead == InitAead /\ [][NextAead]_vars

\* the number of bits set in a byte
RECURSIVE count_ones(_)
count_ones(x) == IF x = 0 THEN 0 ELSE (x % 2) + count_ones(x \div 2)

\* the number of bit positions in which two byte strings of one length differ
BitDistance(x, y) ==
    FoldRange(LAMBDA d, i : d + count_ones(Xor8(x[i], y[i])), 0, 1, Len(x))

\* C2: when decrypt returns an error, AuthenticationFailed or InvalidLength,
\* the plaintext buffer holds what it held before the call.
C2_BufferUntouchedOnError ==
    (aead.phase = "done" /\ aead.result \in {"AuthenticationFailed", "InvalidLength"})
        => aead.plaintext = aead.buffer

\* decrypt has refused a forged message whose decryption differs from what
\* the buffer held
C2_Witness ==
    /\ aead.phase = "done"
    /\ aead.result = "AuthenticationFailed"
    /\ Len(aead.buffer) = 17
    /\ aead.buffer # xor(aead.key, aead.nonce, <<0, 1>>, aead.ciphertext)

\* C3: decrypt of what encrypt produced, under the same key and nonce and
\* into a buffer of the plaintext's length, returns Ok and the plaintext.
C3_RoundTrip ==
    (/\ aead.phase = "done"
     /\ aead.ciphertext = aead.sent.ciphertext
     /\ aead.tag = aead.sent.tag
     /\ Len(aead.buffer) = Len(aead.plain))
        => (aead.result = "Ok" /\ aead.plaintext = aead.plain)

\* a 65-byte plaintext, two keystream blocks, has made the round trip
C3_Witness ==
    /\ aead.phase = "done"
    /\ aead.result = "Ok"
    /\ Len(aead.plain) = 65
    /\ aead.plaintext = aead.plain
    /\ aead.ciphertext # aead.plain

\* C4: if what decrypt is given differs from what encrypt produced in exactly
\* one bit, of the ciphertext or of the tag, decrypt returns
\* AuthenticationFailed.
C4_BitFlipRejected ==
    (/\ aead.phase = "done"
     /\ Len(aead.buffer) = Len(aead.ciphertext)
     /\ BitDistance(aead.sent.ciphertext \o aead.sent.tag, aead.ciphertext \o aead.tag) = 1)
        => aead.result = "AuthenticationFailed"

\* decrypt has answered for a message with one ciphertext bit flipped, and
\* for one with the last tag bit flipped
C4_Witness ==
    /\ aead.phase = "done"
    /\ Len(aead.buffer) = Len(aead.ciphertext)
    /\ aead.tag = aead.sent.tag
    /\ BitDistance(aead.sent.ciphertext, aead.ciphertext) = 1
    /\ aead.result = "AuthenticationFailed"


-----------------------------------------------------------------------------
(* A Shamir sharing: a dealer calls split, then some of the shares, in some *)
(* order, are handed to combine.                                            *)

MaxShares == 3          \* largest share_count and threshold passed to split

Secrets == { <<>>, <<66>>, <<0, 255>> }

\* the bytes the Csprng of split may return: three of its possible streams
RandomStreams ==
    { <<0, 0, 0, 0, 0, 0, 0, 0>>,
      <<255, 255, 255, 255, 255, 255, 255, 255>>,
      <<83, 202, 1, 128, 7, 9, 254, 27>> }

InitSss ==
    /\ sss = [phase |-> "start", secret |-> <<>>, threshold |-> 0, shares |-> <<>>,
              passed |-> <<>>, result |-> Err("None")]
    /\ IdleBut("sss")

SplitReturn(secret, threshold, r) ==
    sss' = [sss EXCEPT !.phase = IF r.ok THEN "shared" ELSE "failed",
                       !.secret = secret, !.threshold = threshold,
                       !.shares = IF r.ok THEN r.value ELSE <<>>, !.result = r]

\* split(&secret, threshold, share_count)
Split(secret, threshold, share_count, random) ==
    /\ sss.phase = "start"
    /\ SplitReturn(secret, threshold, split(secret, threshold, share_count, random))
    /\ UnchangedBut("sss")

CombineReturn(passed, r) ==
    sss' = [sss EXCEPT !.phase = "combined", !.passed = passed, !.result = r]

\* the shares numbered by selection, in that order
Selected(selection) ==
    FoldRange(LAMBDA passed, k : Append(passed, sss.shares[selection[k]]),
              <<>>, 1, Len(selection))

\* combine(&shares) on a selection of the shares of split
Combine(selection) ==
    /\ sss.phase = "shared"
    /\ CombineReturn(Selected(selection), Let1(combine, Selected(selection)))
    /\ UnchangedBut("sss")

NextSss ==
    \/ \E secret \in Secrets : \E threshold \in 0..MaxShares :
         \E share_count \in 0..MaxShares : \E random \in RandomStreams :
           Split(secret, threshold, share_count, random)
    \/ \E count \in 0..Len(sss.shares) :
         \E selection \in [1..count -> 1..Len(sss.shares)] : Combine(selection)

SpecSss == InitSss /\ [][NextSss]_vars

\* the shares passed to combine have pairwise different ids
DistinctIds(shares) ==
    \A i, j \in 1..Len(shares) : i # j => shares[i].id # shares[j].id

\* C1: combine of threshold distinct shares out of those split returned,
\* in any order, returns the secret that was split.
C1_CombineRecovers ==
    (/\ sss.phase = "combined"
     /\ Len(sss.passed) = sss.threshold
     /\ DistinctIds(sss.passed))
        => sss.result = Ok(sss.secret)

\* three shares of a 3-of-3 sharing with non-zero coefficients were
\* combined out of order
C1_Witness ==
    /\ sss.phase = "combined"
    /\ sss.threshold = 3
    /\ Len(sss.passed) = 3
    /\ DistinctIds(sss.passed)
    /\ sss.passed[1].id > sss.passed[2].id
    /\ sss.shares[1].data # sss.secret
    /\ sss.result = Ok(sss.secret)

\* C10: combine of fewer shares than the threshold, the empty slice
\* included, returns the error NotEnoughShares.
C10_TooFewShares ==
    (sss.phase = "combined" /\ Len(sss.passed) < sss.threshold)
        => sss.result = Err("NotEnoughShares")

\* two shares of a sharing of threshold 3 were passed to combine
C10_Witness ==
    /\ sss.phase = "combined"
    /\ sss.threshold = 3
    /\ Len(sss.passed) = 2
    /\ DistinctIds(sss.passed)
    /\ ~sss.result.ok


-----------------------------------------------------------------------------
(* derivation/argon2id/memory.rs and reference.rs: the memory layout and    *)
(* the choice of the reference block.  Lanes, lengths and indices are small *)
(* here and are plain integers; J1 and J2 are u32.                          *)

\* MemoryLayout::new
MemoryLayout_new(mem_kib, lanes) ==
    [lanes |-> lanes,
     lane_len |-> ((mem_kib \div (4 * lanes)) * (4 * lanes)) \div lanes,
     segment_len |-> (((mem_kib \div (4 * lanes)) * (4 * lanes)) \div lanes) \div 4,
     total_blocks |-> (mem_kib \div (4 * lanes)) * (4 * lanes)]

\* MemoryLayout::index
index(layout, lane, index_in_lane) == (lane * layout.lane_len) + index_in_lane

\* u32::saturating_sub
saturating_sub(a, b) == IF a < b THEN 0 ELSE a - b

\* j2 % lanes, j2 a u32
u32_mod(j, n) == (((j[1] % n) * (65536 % n)) + j[2]) % n

\* ref_lane with J2 used in the first slice of the first pass too
ref_lane_any(pass, slice, lane, lanes, j2) == u32_mod(j2, lanes)

ref_lane(pass, slice, lane, lanes, j2) ==
    IF pass = 0 /\ slice = 0 THEN lane ELSE u32_mod(j2, lanes)

reference_area_size(pass, slice, same_lane, index_in_segment, layout) ==
    IF pass = 0
    THEN IF slice = 0 THEN saturating_sub(index_in_segment, 1)
         ELSE IF same_lane THEN ((slice * layout.segment_len) + index_in_segment) - 1
         ELSE IF index_in_segment = 0 THEN saturating_sub(slice * layout.segment_len, 1)
         ELSE slice * layout.segment_len
    ELSE IF same_lane THEN ((layout.lane_len - layout.segment_len) + index_in_segment) - 1
    ELSE IF index_in_segment = 0
         THEN saturating_sub(layout.lane_len - layout.segment_len, 1)
         ELSE layout.lane_len - layout.segment_len

\* x = (j1 as u64 * j1 as u64) >> 32
phi_x(j1) == U64Shr(U64Mul(U64From32(j1), U64From32(j1)), 32)

\* W - 1 - ((W * x) >> 32), saturating, as u32; W is the u64 of the area size
relative_position(area, x) ==
    U64To32(U64SatSub(U64SatSub(area, <<1, 0, 0, 0, 0>>), U64Shr(U64Mul(area, x), 32)))

\* start_position without the rotation to the slice after the current one
start_position_zero(pass, slice, segment_len) == 0

start_position(pass, slice, segment_len) ==
    IF pass = 0 \/ slice = 3 THEN 0 ELSE (slice + 1) * segment_len

\* ref_index = (start_position + relative_position) % lane_len
ref_index(start, relative, lane_len) ==
    (start + (relative[1] * 65536) + relative[2]) % lane_len

reference_in_area(pass, slice, index_in_segment, layout, j1, lane_of_ref, area) ==
    IF area = 0 THEN <<lane_of_ref, 0>>
    ELSE <<lane_of_ref,
           ref_index(start_position(pass, slice, layout.segment_len),
                     relative_position(U64From32(<<0, area>>), phi_x(j1)),
                     layout.lane_len)>>

reference_in_lane(pass, slice, lane, index_in_segment, layout, j1, lane_of_ref) ==
    reference_in_area(pass, slice, index_in_segment, layout, j1, lane_of_ref,
                      reference_area_size(pass, slice, lane_of_ref = lane,
                                          index_in_segment, layout))

\* compute_reference_position: (ref_lane, ref_index)
compute_reference_position(pass, slice, lane, index_in_segment, layout, j1, j2) ==
    reference_in_lane(pass, slice, lane, index_in_segment, layout, j1,
                      ref_lane(pass, slice, lane, layout.lanes, j2))

\* fill_segment: start_idx
start_idx(pass, slice) == IF pass = 0 /\ slice = 0 THEN 2 ELSE 0

\* a prev_idx that stays at column 0 and does not wrap to the last column
prev_idx_unwrapped(layout, index_in_lane) ==
    IF index_in_lane = 0 THEN 0 ELSE index_in_lane - 1

\* fill_segment: prev_idx
prev_idx(layout, index_in_lane) ==
    IF index_in_lane = 0 THEN layout.lane_len - 1 ELSE index_in_lane - 1


-----------------------------------------------------------------------------
(* The Argon2 fill, block by block in the order of MemoryLayout::fill, with *)
(* J1 and J2 free: whatever the blocks and the address blocks hold, these   *)
(* are the reference positions the fill can be given.                       *)

MaxLanes == 2           \* largest number of lanes
MaxPasses == 2          \* largest number of passes (time)

\* mem_kib, of which those with mem_kib >= 8 * lanes pass validation
MemKibs == {8, 12, 16, 24, 27}

\* J1: values whose squares are spread over the range of x, and the extremes
J1s ==
    { <<0, 0>>, <<0, 65535>>, <<16384, 0>>, <<23171, 0>>, <<28378, 0>>, <<32768, 0>>,
      <<36636, 0>>, <<40133, 0>>, <<43349, 0>>, <<46341, 100>>, <<49152, 0>>,
      <<51811, 0>>, <<54340, 0>>, <<56756, 0>>, <<59074, 0>>, <<61303, 0>>,
      <<63454, 0>>, <<65535, 65535>> }

J2s == { <<0, 0>>, <<0, 1>>, <<0, 2>>, <<65535, 65535>> }

\* MemoryLayout::fill and the loop of fill_segment: the position of the next
\* block write at or after p, the pass being time when there is none
RECURSIVE next_write(_, _, _)
next_write(layout, time, p) ==
    IF p.pass >= time \/ p.i < layout.segment_len THEN p
    ELSE IF p.lane + 1 < layout.lanes
    THEN next_write(layout, time, [p EXCEPT !.lane = p.lane + 1,
                                            !.i = start_idx(p.pass, p.slice)])
    ELSE IF p.slice + 1 < 4
    THEN next_write(layout, time, [p EXCEPT !.slice = p.slice + 1, !.lane = 0,
                                            !.i = start_idx(p.pass, p.slice + 1)])
    ELSE next_write(layout, time, [pass |-> p.pass + 1, slice |-> 0, lane |-> 0,
                                   i |-> start_idx(p.pass + 1, 0)])

first_write(layout, time) ==
    next_write(layout, time, [pass |-> 0, slice |-> 0, lane |-> 0, i |-> start_idx(0, 0)])

\* argon2id up to the call of fill: the first two blocks of each lane are set
RefStart(mem_kib, lanes, time) ==
    [layout |-> MemoryLayout_new(mem_kib, lanes), time |-> time,
     at |-> first_write(MemoryLayout_new(mem_kib, lanes), time),
     ready |-> { <<lane, j>> : lane \in 0..(lanes - 1), j \in 0..1 },
     last |-> [pass |-> 0, slice |-> 0, lane |-> 0, cur |-> 0, reference |-> <<0, 0>>,
               ready |-> TRUE, written |-> FALSE]]

InitRef ==
    /\ ref \in { RefStart(p[1], p[2], time) :
                 p \in { q \in MemKibs \X (1..MaxLanes) : q[1] >= 8 * q[2] },
                 time \in 1..MaxPasses }
    /\ IdleBut("ref")

FillBlockWrite(cur, reference) ==
    ref' = [ref EXCEPT
               !.at = next_write(ref.layout, ref.time, [ref.at EXCEPT !.i = ref.at.i + 1]),
               !.ready = ref.ready \cup {<<ref.at.lane, cur>>},
               !.last = [pass |-> ref.at.pass, slice |-> ref.at.slice, lane |-> ref.at.lane,
                         cur |-> cur, reference |-> reference,
                         ready |-> reference \in ref.ready, written |-> TRUE]]

\* one turn of the loop of fill_segment, the words read giving j1 and j2
FillBlock(j1, j2) ==
    /\ ref.at.pass < ref.time
    /\ FillBlockWrite((ref.at.slice * ref.layout.segment_len) + ref.at.i,
                      compute_reference_position(ref.at.pass, ref.at.slice, ref.at.lane,
                                                 ref.at.i, ref.layout, j1, j2))
    /\ UnchangedBut("ref")

NextRef == \E j1 \in J1s : \E j2 \in J2s : FillBlock(j1, j2)

SpecRef == InitRef /\ [][NextRef]_vars

\* C7: the reference block of every block write is not the block written;
\* in pass 0 it was initialised or filled before the write; and when it is
\* in another lane it is outside the slice being filled.
C7_ReferenceCompleted ==
    ref.last.written =>
        /\ ref.last.reference # <<ref.last.lane, ref.last.cur>>
        /\ ref.last.pass = 0 => ref.last.ready
        /\ ref.last.reference[1] # ref.last.lane
               => ref.last.reference[2] \div ref.layout.segment_len # ref.last.slice
        /\ ref.last.reference[1] \in 0..(ref.layout.lanes - 1)
        /\ ref.last.reference[2] \in 0..(ref.layout.lane_len - 1)

\* in a later pass a block of another lane, two slices ahead of the slice
\* being filled, was taken as reference
C7_Witness ==
    /\ ref.last.written
    /\ ref.last.pass = 1
    /\ ref.last.slice = 1
    /\ ref.last.reference[1] # ref.last.lane
    /\ ref.last.reference[2] \div ref.layout.segment_len = 3


-----------------------------------------------------------------------------
(* derivation/argon2id/block.rs and memory.rs: the contents of the blocks.  *)
(* Of each 1024-byte block only the first 64-bit word is kept, the word     *)
(* fill_segment reads J1 and J2 from, as <<low u32, high u32>>; compress    *)
(* and the hashes that set the first blocks stand as fixed mixing functions *)
(* of these words.                                                          *)

Block_ZERO == <<Zero32, Zero32>>

mix(a, b) == wrapping_add(rotate_left(Xor32(a, b), 13), wrapping_add(b, <<40503, 31161>>))

\* Block::compress
compress(x, y) == <<mix(mix(x[1], y[1]), x[2]), mix(mix(y[2], x[1]), y[1])>>

\* Block::in_place_xor
in_place_xor(self, other) == <<Xor32(self[1], other[1]), Xor32(self[2], other[2])>>

\* Block::generate_address_block, word i of it
address_word(pass, lane, slice, total_blocks, time, counter, i) ==
    compress(Block_ZERO,
             compress(Block_ZERO, <<<<(pass * 256) + lane, (slice * 256) + total_blocks>>,
                                    <<(time * 256) + counter, (2 * 256) + i>>>>))

\* the first two blocks of lane i: H'(H0 || j || i)
initial_block(h0, i, j) == compress(<<<<h0, j>>, <<i, h0>>>>, <<<<j, i>>, <<h0, 1>>>>)

\* the memory of argon2id when fill is called
initial_memory(h0, layout) ==
    FoldRange(LAMBDA memory, k :
                  Append(memory, IF k % layout.lane_len < 2
                                 THEN initial_block(h0, k \div layout.lane_len,
                                                    k % layout.lane_len)
                                 ELSE Block_ZERO),
              <<>>, 0, layout.total_blocks - 1)

\* fill_segment: (j1, j2) of the block at index i of the segment
block_j(memory, layout, pass, slice, lane, i, time) ==
    IF pass = 0 /\ slice < 2
    THEN address_word(pass, lane, slice, layout.total_blocks, time, 1 + (i \div 128), i % 128)
    ELSE memory[index(layout, lane, prev_idx(layout, (slice * layout.segment_len) + i)) + 1]

\* fill_segment: the store of the compressed block
block_store(memory, pass, cur, compressed) ==
    [memory EXCEPT ![cur + 1] = IF pass = 0 THEN compressed
                                ELSE in_place_xor(memory[cur + 1], compressed)]

\* fill_segment: the blocks read and written for index i: cur, prev, reference
block_indices(layout, lane, index_in_lane, reference) ==
    [cur |-> index(layout, lane, index_in_lane),
     prev |-> index(layout, lane, prev_idx(layout, index_in_lane)),
     reference |-> index(layout, reference[1], reference[2])]

fill_block_at(memory, pass, at) ==
    block_store(memory, pass, at.cur, compress(memory[at.prev + 1], memory[at.reference + 1]))

fill_block_j(memory, layout, pass, slice, lane, i, j) ==
    block_indices(layout, lane, (slice * layout.segment_len) + i,
                  compute_reference_position(pass, slice, lane, i, layout, j[1], j[2]))

\* fill_segment: the blocks of the turn of the loop for index i
fill_block_indices(memory, layout, pass, slice, lane, i, time) ==
    fill_block_j(memory, layout, pass, slice, lane, i,
                 block_j(memory, layout, pass, slice, lane, i, time))

\* fill_segment: one turn of the loop
fill_block(memory, layout, pass, slice, lane, i, time) ==
    Let1(LAMBDA at : fill_block_at(memory, pass, at),
         fill_block_indices(memory, layout, pass, slice, lane, i, time))

fill_segment(memory, layout, pass, slice, lane, time) ==
    FoldRange(LAMBDA mem, i : fill_block(mem, layout, pass, slice, lane, i, time),
              memory, start_idx(pass, slice), layout.segment_len - 1)

\* fill: the loop over the lanes for one pass and slice
fill_slice(memory, layout, pass, slice, time) ==
    FoldRange(LAMBDA mem, lane : fill_segment(mem, layout, pass, slice, lane, time),
              memory, 0, layout.lanes - 1)


-----------------------------------------------------------------------------
(* The Argon2 fill with the lanes of a slice run concurrently: each lane    *)
(* fills its segment block by block, the lanes interleave freely, and a     *)
(* join at the end of the slice starts the next one.                        *)

H0s == {5, 9}           \* stand-ins for the pre-hash H0 of two inputs

\* the state at the start of a slice; expected is what the loop over the
\* lanes of MemoryLayout::fill makes of the memory in this slice
ParSlice(layout, time, pass, slice, memory) ==
    [phase |-> "filling", layout |-> layout, time |-> time, pass |-> pass, slice |-> slice,
     next |-> [lane \in 0..(layout.lanes - 1) |-> start_idx(pass, slice)],
     memory |-> memory,
     expected |-> IF pass < time THEN fill_slice(memory, layout, pass, slice, time)
                  ELSE memory,
     first |-> -1,
     last |-> [lane |-> 0, at |-> [cur |-> 0, prev |-> 0, reference |-> 0],
               written |-> FALSE]]

ParStart(h0, layout, time) ==
    Let1(LAMBDA memory : ParSlice(layout, time, 0, 0, memory), initial_memory(h0, layout))

InitPar ==
    /\ par \in { ParStart(h0, MemoryLayout_new(p[1], p[2]), time) :
                 h0 \in H0s,
                 p \in { q \in MemKibs \X (1..MaxLanes) : q[1] >= 8 * q[2] },
                 time \in 1..MaxPasses }
    /\ IdleBut("par")

LaneStepAt(lane, at) ==
    par' = [par EXCEPT !.next[lane] = par.next[lane] + 1,
                       !.memory = fill_block_at(par.memory, par.pass, at),
                       !.first = IF par.first = -1 THEN lane ELSE par.first,
                       !.last = [lane |-> lane, at |-> at, written |-> TRUE]]

\* the thread of a lane runs one turn of the loop of fill_segment
LaneStep(lane) ==
    /\ par.pass < par.time
    /\ lane < par.layout.lanes
    /\ par.next[lane] < par.layout.segment_len
    /\ LaneStepAt(lane, fill_block_indices(par.memory, par.layout, par.pass, par.slice,
                                           lane, par.next[lane], par.time))
    /\ UnchangedBut("par")

SliceDone == \A lane \in 0..(par.layout.lanes - 1) : par.next[lane] = par.layout.segment_len

\* every lane has finished its segment: the next slice, or the next pass
SliceJoin ==
    /\ par.pass < par.time
    /\ SliceDone
    /\ par' = IF par.slice < 3
              THEN ParSlice(par.layout, par.time, par.pass, par.slice + 1, par.memory)
              ELSE ParSlice(par.layout, par.time, par.pass + 1, 0, par.memory)
    /\ UnchangedBut("par")

NextPar ==
    \/ \E lane \in 0..(MaxLanes - 1) : LaneStep(lane)
    \/ SliceJoin

SpecPar == InitPar /\ [][NextPar]_vars

\* block b is one that a lane other than the given one writes in this slice
WrittenByOtherLane(b, lane) ==
    /\ b \div par.layout.lane_len # lane
    /\ (b % par.layout.lane_len) \div par.layout.segment_len = par.slice
    /\ (b % par.layout.lane_len) % par.layout.segment_len >= start_idx(par.pass, par.slice)

\* C8: whatever the interleaving of the lanes within a slice, every block
\* written holds what the sequential loop over the lanes writes there, the
\* memory at the join is that of the sequential order, and no lane reads a
\* block that another lane writes during the slice.
C8_LanesIndependent ==
    par.phase # "idle" =>
        /\ \A lane \in 0..(par.layout.lanes - 1) :
             \A i \in 0..(par.next[lane] - 1) :
               par.memory[index(par.layout, lane, (par.slice * par.layout.segment_len) + i) + 1]
                 = par.expected[index(par.layout, lane,
                                      (par.slice * par.layout.segment_len) + i) + 1]
        /\ SliceDone => par.memory = par.expected
        /\ par.last.written =>
             /\ ~WrittenByOtherLane(par.last.at.prev, par.last.lane)
             /\ ~WrittenByOtherLane(par.last.at.reference, par.last.lane)

\* in the second pass lane 1 started a slice, lane 0 finished it, and its
\* last block took its reference from lane 1
C8_Witness ==
    /\ par.phase # "idle"
    /\ par.pass = 1
    /\ SliceDone
    /\ par.first = 1
    /\ par.last.written
    /\ par.last.lane = 0
    /\ par.last.at.reference \div par.layout.lane_len = 1


-----------------------------------------------------------------------------
(* derivation/argon2id/params.rs and core.rs: validation of the parameters. *)
(* The u32 products are computed with their width: with overflow checks (a  *)
(* debug build) an overflow panics, without them (a release build) it wraps *)

\* k * x on u32 for a small k: whether it overflows, and the wrapped product
u32_mul(k, x) ==
    [overflow |-> (k * x[1]) + ((k * x[2]) \div 65536) >= 65536,
     value |-> <<((k * x[1]) + ((k * x[2]) \div 65536)) % 65536, (k * x[2]) % 65536>>]

\* Argon2Params::validate from the memory check on; min_mem is 8 * self.lanes
validate_memory(mem_kib, tag_len, overflow_checks, min_mem) ==
    IF min_mem.overflow /\ overflow_checks THEN "Panic"
    ELSE IF Lt32(mem_kib, min_mem.value) THEN "MemoryTooSmall"
    ELSE IF tag_len < 4 \/ tag_len > 1024 THEN "TagLengthInvalid"
    ELSE "Ok"

\* Argon2Params::validate
validate(lanes, time, mem_kib, tag_len, overflow_checks) ==
    IF Lt32(lanes, <<0, 1>>) THEN "TooFewLanes"
    ELSE IF Lt32(time, <<0, 1>>) THEN "TooFewPasses"
    ELSE validate_memory(mem_kib, tag_len, overflow_checks, u32_mul(8, lanes))

\* argon2id after the checks: sync_points * lanes, and the division by it
argon2id_layout(overflow_checks, divisor) ==
    IF divisor.overflow /\ overflow_checks THEN "Panic"
    ELSE IF divisor.value = Zero32 THEN "Panic"
    ELSE "Proceeds"

argon2id_validated(salt_len, lanes, overflow_checks, validated) ==
    IF validated = "Panic" THEN "Panic"
    ELSE IF validated # "Ok" THEN validated
    ELSE IF salt_len < 8 THEN "InvalidSalt"
    ELSE argon2id_layout(overflow_checks, u32_mul(4, lanes))

\* argon2id up to the allocation of the memory: the error returned, Panic,
\* or Proceeds when the parameters are accepted
argon2id(salt_len, lanes, time, mem_kib, tag_len, overflow_checks) ==
    argon2id_validated(salt_len, lanes, overflow_checks,
                       validate(lanes, time, mem_kib, tag_len, overflow_checks))

LanesValues ==
    { <<0, 0>>, <<0, 1>>, <<0, 2>>, <<8192, 0>>, <<8192, 1>>, <<16384, 0>>, <<65535, 65535>> }

TimeValues == { <<0, 0>>, <<0, 1>>, <<65535, 65535>> }

MemKibValues == { <<0, 0>>, <<0, 7>>, <<0, 8>>, <<0, 15>>, <<0, 16>>, <<65535, 65535>> }

TagLens == {3, 4, 1024, 1025}

SaltLens == {7, 8}

InitVal ==
    /\ val = [phase |-> "start"]
    /\ IdleBut("val")

\* argon2id(password, salt, &params) in a build with or without overflow
\* checks
Argon2id(salt_len, lanes, time, mem_kib, tag_len, overflow_checks) ==
    /\ val.phase = "start"
    /\ val' = [phase |-> "returned", salt_len |-> salt_len, lanes |-> lanes, time |-> time,
               mem_kib |-> mem_kib, tag_len |-> tag_len,
               overflow_checks |-> overflow_checks,
               outcome |-> argon2id(salt_len, lanes, time, mem_kib, tag_len,
                                    overflow_checks)]
    /\ UnchangedBut("val")

NextVal ==
    \E salt_len \in SaltLens : \E lanes \in LanesValues : \E time \in TimeValues :
      \E mem_kib \in MemKibValues : \E tag_len \in TagLens :
        \E overflow_checks \in BOOLEAN :
          Argon2id(salt_len, lanes, time, mem_kib, tag_len, overflow_checks)

SpecVal == InitVal /\ [][NextVal]_vars

\* the errors owed to the parameters of the call: one for each constraint
\* they break, 8 * lanes being the product of the integers
ErrorsOwed ==
    (IF val.lanes = Zero32 THEN {"TooFewLanes"} ELSE {})
    \cup (IF val.time = Zero32 THEN {"TooFewPasses"} ELSE {})
    \cup (IF U64Lt(U64From32(val.mem_kib), U64Mul(<<8, 0, 0, 0, 0>>, U64From32(val.lanes)))
          THEN {"MemoryTooSmall"} ELSE {})
    \cup (IF val.tag_len < 4 \/ val.tag_len > 1024 THEN {"TagLengthInvalid"} ELSE {})
    \cup (IF val.salt_len < 8 THEN {"InvalidSalt"} ELSE {})

\* C9 as the specification states it: a call whose parameters break one of
\* lanes >= 1, time >= 1, mem_kib >= 8 * lanes, 4 <= tag_len <= 1024,
\* |salt| >= 8 returns the typed error of a constraint it breaks; it neither
\* aborts nor goes on.
C9_InvalidRejected ==
    (val.phase = "returned" /\ ErrorsOwed # {}) => val.outcome \in ErrorsOwed

\* C9 for the calls in which 8 * lanes fits in a u32 (lanes < 2^29): these
\* are rejected as stated.
C9_InvalidRejectedBelowOverflow ==
    (val.phase = "returned" /\ ErrorsOwed # {} /\ val.lanes[1] < 8192)
        => val.outcome \in ErrorsOwed

\* a call with two lanes and 15 KiB was refused as MemoryTooSmall
C9_Witness ==
    /\ val.phase = "returned"
    /\ val.lanes = <<0, 2>>
    /\ val.mem_kib = <<0, 15>>
    /\ val.outcome = "MemoryTooSmall"

-----------------------------------------------------------------------------
(* recovery/sss/core.rs: refresh.                                           *)

\* refresh: the checks on every share, from share k on
RECURSIVE refresh_check(_, _, _, _, _)
refresh_check(shares, threshold, secret_len, k, seen) ==
    IF k > Len(shares) THEN "Ok"
    ELSE IF shares[k].id = 0 THEN "InvalidShare"
    ELSE IF shares[k].id \in seen THEN "DuplicateShareId"
    ELSE IF shares[k].threshold # threshold \/ Len(shares[k].data) # secret_len
    THEN "InconsistentShares"
    ELSE refresh_check(shares, threshold, secret_len, k + 1, seen \cup {shares[k].id})

\* refresh whose polynomial draws its constant term too
refresh_coeffs_drawn_from_0(threshold, random, byte_index) ==
    SubSeq(random, (byte_index * threshold) + 1, (byte_index + 1) * threshold)

\* refresh: the polynomial g of the byte at byte_index (from 0): coeffs[0] is
\* left ZERO, the others are the bytes that r.fill_bytes returns, in order
refresh_coeffs(threshold, random, byte_index) ==
    IF threshold = 0 THEN <<>>
    ELSE <<0>> \o SubSeq(random, (byte_index * (threshold - 1)) + 1,
                         (byte_index + 1) * (threshold - 1))

\* refresh that stores g(x) without adding the old byte
refresh_data_without_old(old, threshold, secret_len, random) ==
    FoldRange(LAMBDA data, byte_index :
                  Append(data, from_polynomial(refresh_coeffs(threshold, random, byte_index),
                                               old.id)),
              <<>>, 0, secret_len - 1)

\* refresh: the data of the new share made from old
refresh_data(old, threshold, secret_len, random) ==
    FoldRange(LAMBDA data, byte_index :
                  Append(data,
                         FieldElement_add(old.data[byte_index + 1],
                                          from_polynomial(refresh_coeffs(threshold, random,
                                                                         byte_index),
                                                          old.id))),
              <<>>, 0, secret_len - 1)

refresh_checked(shares, threshold, secret_len, random, check) ==
    IF check # "Ok" THEN Err(check)
    ELSE Ok(FoldRange(LAMBDA new_shares, k :
                          Append(new_shares,
                                 [id |-> shares[k].id, threshold |-> threshold,
                                  data |-> refresh_data(shares[k], threshold, secret_len,
                                                        random)]),
                      <<>>, 1, Len(shares)))

refresh(shares, random) ==
    IF shares = <<>> THEN Err("NotEnoughShares")
    ELSE refresh_checked(shares, shares[1].threshold, Len(shares[1].data), random,
                         refresh_check(shares, shares[1].threshold, Len(shares[1].data),
                                       1, {}))

-----------------------------------------------------------------------------
(* The shares of a sharing after split: one share is corrupted by its       *)
(* holder, or all of them are refreshed; shares are then handed to combine. *)

\* the changes a holder makes to a share: another id, another threshold, a
\* shorter data, one data byte changed
Corruptions(share) ==
    { [share EXCEPT !.id = id] : id \in {0, (share.id % MaxShares) + 1} }
    \cup { [share EXCEPT !.threshold = threshold] :
             threshold \in {share.threshold - 1, share.threshold + 1} }
    \cup { [share EXCEPT !.data = SubSeq(share.data, 1, Len(share.data) - 1)] }
    \cup { [share EXCEPT !.data[at] = Xor8(share.data[at], delta)] :
             at \in 1..Len(share.data), delta \in {1, 128} }

InitShares ==
    /\ sss = [phase |-> "start", secret |-> <<>>, threshold |-> 0, shares |-> <<>>,
              pool |-> <<>>, changed |-> 0, random |-> <<>>, picked |-> <<>>,
              passed |-> <<>>, result |-> Err("None")]
    /\ IdleBut("sss")

DealReturn(secret, threshold, r) ==
    sss' = [sss EXCEPT !.phase = "shared", !.secret = secret, !.threshold = threshold,
                       !.shares = r.value]

\* split(&secret, threshold, MaxShares).unwrap()
Deal(secret, threshold, random) ==
    /\ sss.phase = "start"
    /\ DealReturn(secret, threshold, split(secret, threshold, MaxShares, random))
    /\ UnchangedBut("sss")

\* shares[k] = corrupted
Corrupt(k, corrupted) ==
    /\ sss.phase = "shared"
    /\ sss' = [sss EXCEPT !.phase = "corrupted", !.changed = k,
                          !.pool = [sss.shares EXCEPT ![k] = corrupted]]
    /\ UnchangedBut("sss")

RefreshReturn(random, r) ==
    sss' = [sss EXCEPT !.phase = "refreshed", !.random = random,
                       !.pool = sss.shares \o r.value]

\* refresh(&shares).unwrap(): the old shares stay with their holders
Refresh(random) ==
    /\ sss.phase = "shared"
    /\ RefreshReturn(random, refresh(sss.shares, random))
    /\ UnchangedBut("sss")

\* the choices of count shares of the pool, in the order of the pool
Picks(count) ==
    { picked \in [1..count -> 1..Len(sss.pool)] :
        \A i \in 1..(count - 1) : picked[i] < picked[i + 1] }

Picked(picked) ==
    FoldRange(LAMBDA passed, k : Append(passed, sss.pool[picked[k]]),
              <<>>, 1, Len(picked))

CombinePickedReturn(picked, passed, r) ==
    sss' = [sss EXCEPT !.phase = IF sss.phase = "refreshed" THEN "combined refreshed"
                                 ELSE "combined corrupted",
                       !.picked = picked, !.passed = passed, !.result = r]

\* combine(&passed) on shares of the pool
CombinePicked(picked) ==
    /\ sss.phase \in {"corrupted", "refreshed"}
    /\ CombinePickedReturn(picked, Picked(picked), Let1(combine, Picked(picked)))
    /\ UnchangedBut("sss")

NextShares ==
    \/ \E secret \in Secrets \ {<<>>} : \E threshold \in 1..MaxShares :
         \E random \in RandomStreams : Deal(secret, threshold, random)
    \/ \E k \in 1..Len(sss.shares) : \E corrupted \in Corruptions(sss.shares[k]) :
         Corrupt(k, corrupted)
    \/ \E random \in RandomStreams : Refresh(random)
    \/ \E count \in (IF sss.phase = "refreshed" THEN {sss.threshold} ELSE 0..MaxShares) :
         \E picked \in Picks(count) : CombinePicked(picked)

SpecShares == InitShares /\ [][NextShares]_vars

\* the defects of a set of shares that combine is to refuse
SameIdTwice(shares) ==
    \E i, j \in 1..Len(shares) : i # j /\ shares[i].id = shares[j].id

HasIdZero(shares) == \E i \in 1..Len(shares) : shares[i].id = 0

Disagree(shares) ==
    \E i, j \in 1..Len(shares) :
        \/ shares[i].threshold # shares[j].threshold
        \/ Len(shares[i].data) # Len(shares[j].data)

\* C11 as the specification states it: combine returns an error whenever the
\* shares passed to it hold the same id twice, an id 0, or two shares that
\* disagree on the threshold or on the length of the data.
C11_DefectsRejected ==
    (/\ sss.phase = "combined corrupted"
     /\ (SameIdTwice(sss.passed) \/ HasIdZero(sss.passed) \/ Disagree(sss.passed)))
        => ~sss.result.ok

\* C11 for the shares that combine reads, the first threshold ones: a defect
\* among them is refused.
C11_DefectsRejectedInFirst ==
    (/\ sss.phase = "combined corrupted"
     /\ sss.passed # <<>>
     /\ Len(sss.passed) >= sss.passed[1].threshold
     /\ LET first == SubSeq(sss.passed, 1, sss.passed[1].threshold)
        IN  SameIdTwice(first) \/ HasIdZero(first) \/ Disagree(first))
        => ~sss.result.ok

\* share 2 was given the id of share 3 and the three shares were combined
C11_Witness ==
    /\ sss.phase = "combined corrupted"
    /\ sss.threshold = 3
    /\ Len(sss.passed) = 3
    /\ SameIdTwice(sss.passed)
    /\ sss.result = Err("DuplicateShareId")

\* the places in the pool of the first count shares that refresh returned
FirstRefreshed(count) == [k \in 1..count |-> Len(sss.shares) + k]

\* C12: combine of the first threshold shares that refresh returned gives
\* what combine of the first threshold shares passed to refresh gives, the
\* secret, whatever the polynomials drawn by refresh.
C12_RefreshKeepsSecret ==
    (sss.phase = "combined refreshed" /\ sss.picked = FirstRefreshed(sss.threshold))
        => /\ sss.result.ok
           /\ sss.result = Let1(combine, SubSeq(sss.shares, 1, sss.threshold))

\* the refreshed shares of a sharing of threshold 3, which differ from the
\* old ones, were combined
C12_Witness ==
    /\ sss.phase = "combined refreshed"
    /\ sss.threshold = 3
    /\ sss.picked = FirstRefreshed(3)
    /\ \A k \in 1..3 : sss.passed[k].data # sss.shares[k].data
    /\ sss.result = Ok(sss.secret)

\* the corrupted share has one data byte changed and nothing else
DataByteChanged ==
    /\ sss.changed # 0
    /\ sss.pool[sss.changed].id = sss.shares[sss.changed].id
    /\ sss.pool[sss.changed].threshold = sss.shares[sss.changed].threshold
    /\ Len(sss.pool[sss.changed].data) = Len(sss.shares[sss.changed].data)
    /\ sss.pool[sss.changed].data # sss.shares[sss.changed].data

\* C13: when one data byte of one of the threshold shares passed to combine
\* was changed, combine returns a value that is not the secret.
C13_TamperedShareChangesSecret ==
    (/\ sss.phase = "combined corrupted"
     /\ DataByteChanged
     /\ Len(sss.passed) = sss.threshold
     /\ \E k \in 1..Len(sss.picked) : sss.picked[k] = sss.changed)
        => /\ sss.result.ok
           /\ sss.result.value # sss.secret

\* three shares of a sharing of threshold 3 of a secret of two bytes were
\* combined, the top bit of the second byte of the last one being flipped
C13_Witness ==
    /\ sss.phase = "combined corrupted"
    /\ DataByteChanged
    /\ sss.threshold = 3
    /\ sss.changed = 3
    /\ sss.picked = <<1, 2, 3>>
    /\ Len(sss.secret) = 2
    /\ sss.pool[3].data[2] = Xor8(sss.shares[3].data[2], 128)
    /\ sss.result.ok
    /\ sss.result.value[1] = sss.secret[1]
    /\ sss.result.value[2] # sss.secret[2]

\* the shares passed to combine are old ones and refreshed ones, some of each
OldAndNew ==
    /\ \E k \in 1..Len(sss.picked) : sss.picked[k] <= Len(sss.shares)
    /\ \E k \in 1..Len(sss.picked) : sss.picked[k] > Len(sss.shares)

PassedPoints ==
    FoldRange(LAMBDA points, k : Append(points, <<sss.passed[k].id, 0>>),
              <<>>, 1, Len(sss.passed))

\* what the refreshed shares passed to combine add to byte b of the secret:
\* the sum over them of L(0) * g(id), L being the Lagrange basis polynomial
\* of the share among those passed and g the polynomial refresh drew for b
RefreshOffset(points, b) ==
    FoldRange(LAMBDA acc, k :
                  IF sss.picked[k] <= Len(sss.shares) THEN acc
                  ELSE FieldElement_add(
                           acc,
                           FieldElement_mul(
                               FieldElement_div(lagrange_num(points, k),
                                                lagrange_den(points, k)),
                               from_polynomial(refresh_coeffs(sss.threshold, sss.random,
                                                              b - 1),
                                               points[k][1]))),
              0, 1, Len(points))

-----------------------------------------------------------------------------
(* Buffers of different lengths passed to the AEAD.                         *)

\* C20 as the specification states it: a call of encrypt or of decrypt with
\* buffers of different lengths returns InvalidLength and does not abort.
C20_MismatchReported ==
    /\ aead.phase # "panicked"
    /\ (aead.phase = "done" /\ Len(aead.buffer) # Len(aead.ciphertext))
           => aead.result = "InvalidLength"

\* C20 for decrypt: a call of decrypt with a plaintext buffer whose length is
\* not that of the ciphertext returns InvalidLength.
C20_DecryptMismatchReported ==
    (aead.phase = "done" /\ Len(aead.buffer) # Len(aead.ciphertext))
        => aead.result = "InvalidLength"

\* decrypt was called on an untouched ciphertext of 17 bytes with a buffer of
\* 18 bytes
C20_Witness ==
    /\ aead.phase = "done"
    /\ aead.ciphertext = aead.sent.ciphertext
    /\ aead.tag = aead.sent.tag
    /\ Len(aead.ciphertext) = 17
    /\ Len(aead.buffer) = 18
    /\ aead.result = "InvalidLength"

-----------------------------------------------------------------------------
(* primitives/u256.rs, primitives/ops.rs, primitives/u512: U256 and U512.   *)
(* A value is its array of bytes, big-endian: 32 bytes for a U256, 64 for a *)
(* U512.  The operators of the two types have the same code but for the     *)
(* length of the array, which is here the length of self.                   *)

\* what an operator that can panic comes to: the integer it returns, or the
\* message of its panic
returns(value) == [panic |-> "", value |-> value]

panics(message) == [panic |-> message, value |-> <<>>]

\* U256([0; 32]), U512([0; 64])
ZERO(n) == FoldRange(LAMBDA out, i : Append(out, 0), <<>>, 1, n)

\* U256::MAX
MAX(n) == FoldRange(LAMBDA out, i : Append(out, 255), <<>>, 1, n)

\* U256::from(x: u16), U256::from(x: u8)
from_u16(n, x) == SubSeq(ZERO(n), 1, n - 2) \o <<x \div 256, x % 256>>

\* derive(PartialOrd, Ord) on the array: lexicographic, from byte i on
RECURSIVE cmp(_, _, _)
cmp(self, other, i) ==
    IF i > Len(self) THEN 0
    ELSE IF self[i] < other[i] THEN -1
    ELSE IF self[i] > other[i] THEN 1
    ELSE cmp(self, other, i + 1)

\* impl Add: one turn of the loop, on byte i
add_step(self, rhs, s, i) ==
    [out |-> <<(self[i] + rhs[i] + s.carry) % 256>> \o s.out,
     carry |-> (self[i] + rhs[i] + s.carry) \div 256]

\* impl Add: bytes from the last to the first, with a carry
add(self, rhs) ==
    FoldRange(LAMBDA s, k : add_step(self, rhs, s, Len(self) + 1 - k),
              [out |-> <<>>, carry |-> 0], 1, Len(self)).out

\* impl Sub: one turn of the loop, on byte i
sub_step(self, rhs, s, i) ==
    IF self[i] >= rhs[i] + s.borrow
    THEN [out |-> <<self[i] - (rhs[i] + s.borrow)>> \o s.out, borrow |-> 0]
    ELSE [out |-> <<(self[i] + 256) - (rhs[i] + s.borrow)>> \o s.out, borrow |-> 1]

\* impl Sub: bytes from the last to the first, with a borrow
sub(self, rhs) ==
    FoldRange(LAMBDA s, k : sub_step(self, rhs, s, Len(self) + 1 - k),
              [out |-> <<>>, borrow |-> 0], 1, Len(self)).out

\* impl Shl, impl Shr: the shift count, the low 16 bits of rhs
shift_count(rhs) == (rhs[Len(rhs) - 1] * 256) + rhs[Len(rhs)]

\* impl Shl: the loop for i in 0..32 over tmp
shl_bits(tmp, bit_shift) ==
    FoldRange(LAMBDA s, i :
                  [out |-> Append(s.out, Or8((tmp[i] * (2 ^ bit_shift)) % 256, s.carry)),
                   carry |-> tmp[i] \div (2 ^ (8 - bit_shift))],
              [out |-> <<>>, carry |-> 0], 1, Len(tmp)).out

\* impl Shl: once shift is known to be in 1..(8 * n - 1)
shl_by(self, byte_shift, bit_shift) ==
    IF bit_shift = 0
    THEN SubSeq(self, byte_shift + 1, Len(self)) \o ZERO(byte_shift)
    ELSE shl_bits(SubSeq(self, byte_shift + 1, Len(self)) \o ZERO(byte_shift), bit_shift)

shl(self, rhs) ==
    IF shift_count(rhs) = 0 THEN self
    ELSE IF shift_count(rhs) >= 8 * Len(self) THEN ZERO(Len(self))
    ELSE shl_by(self, shift_count(rhs) \div 8, shift_count(rhs) % 8)

\* impl Shr: the loop for i in (0..32).rev() over tmp
shr_bits(tmp, bit_shift) ==
    FoldRange(LAMBDA s, k :
                  [out |-> <<Or8(tmp[Len(tmp) + 1 - k] \div (2 ^ bit_shift), s.carry)>>
                           \o s.out,
                   carry |-> (tmp[Len(tmp) + 1 - k] * (2 ^ (8 - bit_shift))) % 256],
              [out |-> <<>>, carry |-> 0], 1, Len(tmp)).out

\* impl Shr: once shift is known to be in 1..(8 * n - 1)
shr_by(self, byte_shift, bit_shift) ==
    IF bit_shift = 0
    THEN ZERO(byte_shift) \o SubSeq(self, 1, Len(self) - byte_shift)
    ELSE shr_bits(ZERO(byte_shift) \o SubSeq(self, 1, Len(self) - byte_shift), bit_shift)

shr(self, rhs) ==
    IF shift_count(rhs) = 0 THEN self
    ELSE IF shift_count(rhs) >= 8 * Len(self) THEN ZERO(Len(self))
    ELSE shr_by(self, shift_count(rhs) \div 8, shift_count(rhs) % 8)

\* conv/u64.rs then reverse(): limb j of the value, limb 0 the least
\* significant, as its 8 bytes from the least significant one
limb_at(value, last) ==
    <<value[last], value[last - 1], value[last - 2], value[last - 3],
      value[last - 4], value[last - 5], value[last - 6], value[last - 7]>>

limb(value, j) == limb_at(value, Len(value) - (8 * j))

\* a as u128 * b as u128: byte k of the product, with the carry of the bytes
\* below it
widening_mul_step(a, b, s, k) ==
    Let1(LAMBDA total : [out |-> Append(s.out, total % 256), carry |-> total \div 256],
         FoldRange(LAMBDA sum, i : sum + (a[i] * b[(k + 1) - i]),
                   s.carry, IF k > 8 THEN k - 7 ELSE 1, Min(8, k)))

\* a as u128 * b as u128: the 16 bytes of the product of two u64
widening_mul(a, b) ==
    FoldRange(LAMBDA s, k : widening_mul_step(a, b, s, k),
              [out |-> <<>>, carry |-> 0], 1, 16).out

\* u128 += u128: the sum on 16 bytes and whether it left the u128
u128_add(x, y) ==
    FoldRange(LAMBDA s, k : [out |-> Append(s.out, (x[k] + y[k] + s.carry) % 256),
                             carry |-> (x[k] + y[k] + s.carry) \div 256],
              [out |-> <<>>, carry |-> 0], 1, 16)

\* acc[at] += term, remembering an addition that overflowed
acc_add(s, at, term) ==
    Let1(LAMBDA sum : [acc |-> [s.acc EXCEPT ![at + 1] = sum.out],
                       overflow |-> s.overflow \/ sum.carry # 0],
         u128_add(s.acc[at + 1], term))

\* acc = [0u128; 2 * limbs]
acc_zero(limbs) ==
    FoldRange(LAMBDA out, i : Append(out, ZERO(16)), <<>>, 1, 2 * limbs)

\* impl Mul: the two nested loops over the limbs
mul_products(self, rhs, limbs) ==
    FoldRange(LAMBDA s, k :
                  acc_add(s, (k \div limbs) + (k % limbs),
                          widening_mul(limb(self, k \div limbs), limb(rhs, k % limbs))),
              [acc |-> acc_zero(limbs), overflow |-> FALSE], 0, (limbs * limbs) - 1)

\* impl Mul: one turn of for i in 0..(2 * limbs - 1)
mul_carry_step(s, i) ==
    acc_add([acc |-> [s.acc EXCEPT ![i + 1] = SubSeq(s.acc[i + 1], 1, 8) \o ZERO(8)],
             overflow |-> s.overflow],
            i + 1, SubSeq(s.acc[i + 1], 9, 16) \o ZERO(8))

mul_carries(s, limbs) ==
    FoldRange(LAMBDA t, i : mul_carry_step(t, i), s, 0, (2 * limbs) - 2)

\* a as u64 of a u128, then conv/u64.rs: its 8 bytes, big-endian
to_be_bytes(a) == <<a[8], a[7], a[6], a[5], a[4], a[3], a[2], a[1]>>

\* impl Mul: out, the low half of acc from the most significant limb down
mul_out(s, limbs) ==
    FoldRange(LAMBDA out, k : out \o to_be_bytes(s.acc[limbs - k]),
              <<>>, 0, limbs - 1)

\* impl Mul.  += on a u128 that overflows panics in a build with
\* overflow-checks and wraps in a build without
mul_finish(s, limbs, overflow_checks) ==
    IF s.overflow /\ overflow_checks THEN panics("attempt to add with overflow")
    ELSE returns(mul_out(mul_carries(s, limbs), limbs))

mul(self, rhs, overflow_checks) ==
    mul_finish(mul_products(self, rhs, Len(self) \div 8), Len(self) \div 8,
               overflow_checks)

\* impl Div: the test remainder >= rhs of one turn of the loop
div_subtract(rhs, s, byte_idx, bit_in_byte, remainder) ==
    IF cmp(remainder, rhs, 1) >= 0
    THEN [quotient |-> [s.quotient EXCEPT ![byte_idx + 1] =
                            Or8(@, 2 ^ bit_in_byte)],
          remainder |-> sub(remainder, rhs)]
    ELSE [quotient |-> s.quotient, remainder |-> remainder]

\* impl Div: the remainder shifted by one and its last bit set to incoming
div_shift(remainder, incoming) ==
    [remainder EXCEPT ![Len(remainder)] = Or8(And8(@, 254), incoming)]

\* impl Div: one turn of for bit in 0..(8 * n)
div_step(self, rhs, one, s, bit) ==
    div_subtract(rhs, s, bit \div 8, 7 - (bit % 8),
                 div_shift(shl(s.remainder, one),
                           (self[(bit \div 8) + 1] \div (2 ^ (7 - (bit % 8)))) % 2))

div_loop(self, rhs, one) ==
    FoldRange(LAMBDA s, bit : div_step(self, rhs, one, s, bit),
              [quotient |-> ZERO(Len(self)), remainder |-> ZERO(Len(self))],
              0, (8 * Len(self)) - 1).quotient

\* impl Div
div(self, rhs) ==
    IF rhs = ZERO(Len(self)) THEN panics("division by zero")
    ELSE IF cmp(self, rhs, 1) < 0 THEN returns(ZERO(Len(self)))
    ELSE returns(div_loop(self, rhs, from_u16(Len(self), 1)))

-----------------------------------------------------------------------------
(* A program that takes two integers of one width and applies one of the    *)
(* operators to them, as the tests of tests/u256.rs and tests/u512.rs do.   *)

\* the lengths in bytes of a U256 and of a U512
Widths == {32, 64}

\* operands: 0, 1, small values on one and on two bytes, 2^128 - 1, the
\* highest bit alone and the maximum
FixedValues(n) ==
    { ZERO(n), from_u16(n, 1), from_u16(n, 100), from_u16(n, 200), from_u16(n, 300),
      from_u16(n, 384), ZERO(n - 16) \o MAX(16), <<128>> \o ZERO(n - 1), MAX(n) }

\* shift counts: none, inside a byte, whole bytes, both, and the widths
ShiftCounts == {0, 1, 7, 8, 9, 255, 256, 511, 512}

InitFixed ==
    /\ fixed = [phase |-> "start"]
    /\ IdleBut("fixed")

\* the operation is over: the program holds what it returned, or its panic
Returned(op, self, rhs, overflow_checks, r) ==
    /\ fixed.phase = "start"
    /\ fixed' = [phase |-> "done", op |-> op, self |-> self, rhs |-> rhs,
                 overflow_checks |-> overflow_checks, panic |-> r.panic,
                 result |-> r.value]
    /\ UnchangedBut("fixed")

\* self + rhs
Add(self, rhs) == Returned("add", self, rhs, FALSE, returns(add(self, rhs)))

\* self - rhs
Sub(self, rhs) == Returned("sub", self, rhs, FALSE, returns(sub(self, rhs)))

\* self * rhs in a build with or without overflow checks
Mul(self, rhs, overflow_checks) ==
    Returned("mul", self, rhs, overflow_checks, mul(self, rhs, overflow_checks))

\* self / rhs
Div(self, rhs) == Returned("div", self, rhs, FALSE, div(self, rhs))

\* self << rhs
Shl(self, rhs) == Returned("shl", self, rhs, FALSE, returns(shl(self, rhs)))

\* self >> rhs
Shr(self, rhs) == Returned("shr", self, rhs, FALSE, returns(shr(self, rhs)))

NextFixed ==
    \/ \E n \in Widths : \E self \in FixedValues(n) : \E rhs \in FixedValues(n) :
         Add(self, rhs)
    \/ \E n \in Widths : \E self \in FixedValues(n) : \E rhs \in FixedValues(n) :
         Sub(self, rhs)
    \/ \E n \in Widths : \E self \in FixedValues(n) : \E rhs \in FixedValues(n) :
         \E overflow_checks \in BOOLEAN : Mul(self, rhs, overflow_checks)
    \/ \E n \in Widths : \E self \in FixedValues(n) : \E rhs \in FixedValues(n) :
         Div(self, rhs)
    \/ \E n \in Widths : \E self \in FixedValues(n) : \E k \in ShiftCounts :
         Shl(self, from_u16(n, k))
    \/ \E n \in Widths : \E self \in FixedValues(n) : \E k \in ShiftCounts :
         Shr(self, from_u16(n, k))

SpecFixed == InitFixed /\ [][NextFixed]_vars

-----------------------------------------------------------------------------
(* The integers the byte arrays stand for.  An integer is written as its    *)
(* bytes, the most significant first; the byte of weight 256^i of a is      *)
(* ByteOf(a, i) and its bit of weight 2^k is BitOf(a, k).                   *)

ByteOf(a, i) == IF i < 0 \/ i >= Len(a) THEN 0 ELSE a[Len(a) - i]

BitOf(a, k) == IF k < 0 THEN 0 ELSE (ByteOf(a, k \div 8) \div (2 ^ (k % 8))) % 2

\* the integer whose bit of weight 2^k is the bit of weight 2^(k - by) of a,
\* on as many bytes as a: a * 2^by cut to the width for by >= 0, and
\* floor(a / 2^(-by)) for by < 0
ShiftedBy(a, by) ==
    FoldRange(LAMBDA out, i :
                  <<FoldRange(LAMBDA byte, j : byte + (BitOf(a, ((8 * i) + j) - by) * (2 ^ j)),
                              0, 0, 7)>> \o out,
              <<>>, 0, Len(a) - 1)

\* the integer a + b, on count bytes (cut to them when it is larger)
ExactSum(a, b, count) ==
    FoldRange(LAMBDA s, i :
                  [out |-> <<(ByteOf(a, i) + ByteOf(b, i) + s.carry) % 256>> \o s.out,
                   carry |-> (ByteOf(a, i) + ByteOf(b, i) + s.carry) \div 256],
              [out |-> <<>>, carry |-> 0], 0, count - 1).out

\* the sum over i + j = k of the products of byte i of a and byte j of b
Column(a, b, k, carry) ==
    FoldRange(LAMBDA sum, i : sum + (ByteOf(a, i) * ByteOf(b, k - i)), carry, 0, k)

ExactProductStep(s, column) ==
    [out |-> <<column % 256>> \o s.out, carry |-> column \div 256]

\* the integer a * b, on count bytes (cut to them when it is larger)
ExactProduct(a, b, count) ==
    FoldRange(LAMBDA s, k : ExactProductStep(s, Column(a, b, k, s.carry)),
              [out |-> <<>>, carry |-> 0], 0, count - 1).out

\* a < b for two integers written on as many bytes
Below(a, b) ==
    \E i \in 1..Len(a) : a[i] < b[i] /\ \A j \in 1..(i - 1) : a[j] = b[j]

\* a on count bytes, count being at least the length of a
Widened(a, count) == ExactSum(a, <<>>, count)

\* q is the floor of a / b: q * b <= a < q * b + b, no integer being cut
IsFloorOfQuotient(q, a, b, product) ==
    /\ ~ Below(Widened(a, Len(product) + 1), Widened(product, Len(product) + 1))
    /\ Below(Widened(a, Len(product) + 1), ExactSum(product, b, Len(product) + 1))

-----------------------------------------------------------------------------
(* Arithmetic of U256 and U512.                                             *)

\* the operation returned an integer: it did not panic
ReturnedInteger == fixed.phase = "done" /\ fixed.panic = ""

\* what the operation returned is the exact result cut to the width
ExactResult ==
    CASE fixed.op = "add" ->
           fixed.result = ExactSum(fixed.self, fixed.rhs, Len(fixed.self))
      [] fixed.op = "sub" ->
           fixed.self = ExactSum(fixed.result, fixed.rhs, Len(fixed.self))
      [] fixed.op = "mul" ->
           fixed.result = ExactProduct(fixed.self, fixed.rhs, Len(fixed.self))
      [] fixed.op = "div" ->
           IsFloorOfQuotient(fixed.result, fixed.self, fixed.rhs,
                             ExactProduct(fixed.result, fixed.rhs, 2 * Len(fixed.self)))
      [] fixed.op = "shl" ->
           fixed.result = ShiftedBy(fixed.self, shift_count(fixed.rhs))
      [] fixed.op = "shr" ->
           fixed.result = ShiftedBy(fixed.self, 0 - shift_count(fixed.rhs))

\* C17: for all a and b of one width, U256 or U512, a + b, a - b and a * b
\* are the exact integer result reduced modulo 2^W, and none of them aborts
\* on overflow.
C17_ArithmeticWraps ==
    (fixed.phase = "done" /\ fixed.op \in {"add", "sub", "mul"})
        => (ReturnedInteger /\ ExactResult)

\* C17, as far as the code goes: a + b and a - b are the exact result
\* reduced modulo 2^W; so is a * b for the operands on which no sum of
\* products of limbs leaves the 128 bits of its accumulator, whatever the
\* build.
C17_WrapsWithinAccumulators ==
    (/\ fixed.phase = "done"
     /\ fixed.op \in {"add", "sub", "mul"}
     /\ fixed.op = "mul" => mul(fixed.self, fixed.rhs, TRUE).panic = "")
        => (ReturnedInteger /\ ExactResult)

\* MAX * 2 returned 2^W - 2: the product was cut to the width, in a build
\* with overflow checks
C17_Witness ==
    /\ fixed.phase = "done"
    /\ fixed.op = "mul"
    /\ fixed.overflow_checks
    /\ fixed.self = MAX(32)
    /\ fixed.rhs = from_u16(32, 200)
    /\ ReturnedInteger
    /\ ExactResult
    /\ fixed.result # ExactProduct(fixed.self, fixed.rhs, 33)

\* C18: for all a and all b # 0 of one width, a / b is the floor of the
\* exact quotient; in particular a / 1 = a, and a / b = 0 when a < b.
C18_DivFloors ==
    (fixed.phase = "done" /\ fixed.op = "div" /\ fixed.rhs # ZERO(Len(fixed.rhs)))
        => (/\ ReturnedInteger
            /\ ExactResult
            /\ fixed.rhs = from_u16(Len(fixed.rhs), 1) => fixed.result = fixed.self
            /\ Below(fixed.self, fixed.rhs) => fixed.result = ZERO(Len(fixed.self)))

\* C18, as far as the code goes: a / b is the floor of the exact quotient
\* when a < b and when 0 < b <= 128, the remainders then staying inside
\* one byte before they are shifted.
C18_DivFloorsSmallDivisor ==
    (/\ fixed.phase = "done"
     /\ fixed.op = "div"
     /\ fixed.rhs # ZERO(Len(fixed.rhs))
     /\ \/ Below(fixed.self, fixed.rhs)
        \/ ~ Below(from_u16(Len(fixed.rhs), 128), fixed.rhs))
        => (ReturnedInteger /\ ExactResult)

\* MAX / 100 returned the floor of the quotient, which is not 0
C18_Witness ==
    /\ fixed.phase = "done"
    /\ fixed.op = "div"
    /\ fixed.self = MAX(64)
    /\ fixed.rhs = from_u16(64, 100)
    /\ ReturnedInteger
    /\ ExactResult
    /\ fixed.result[1] = 2

\* C19: for every a of one width and every shift count 0 <= k < W, a << k
\* is a * 2^k mod 2^W and a >> k is floor(a / 2^k), for the counts that are
\* not multiples of 8 and the values whose set bits cross the boundary of a
\* byte as for the others.
C19_ShiftsExact ==
    (/\ fixed.phase = "done"
     /\ fixed.op \in {"shl", "shr"}
     /\ shift_count(fixed.rhs) < 8 * Len(fixed.self))
        => (ReturnedInteger /\ ExactResult)

\* C19, as far as the code goes: the shifts are exact for the counts that
\* are multiples of 8.
C19_ShiftsExactByBytes ==
    (/\ fixed.phase = "done"
     /\ fixed.op \in {"shl", "shr"}
     /\ shift_count(fixed.rhs) < 8 * Len(fixed.self)
     /\ shift_count(fixed.rhs) % 8 = 0)
        => (ReturnedInteger /\ ExactResult)

\* 384 << 8 returned 384 * 256, on a U256
C19_Witness ==
    /\ fixed.phase = "done"
    /\ fixed.op = "shl"
    /\ fixed.self = from_u16(32, 384)
    /\ shift_count(fixed.rhs) = 8
    /\ fixed.result = ZERO(29) \o <<1, 128, 0>>
    /\ ExactResult

-----------------------------------------------------------------------------
(* signatures/ed25519/field.rs, the field module that keys/ed25519 uses:    *)
(* the integers modulo p = 2^255 - 19.                                      *)
(* An element stands for an integer modulo p and is written as 22 digits of *)
(* 12 bits, the least significant first. As the limbs of the code, the      *)
(* digits are kept small but not canonical: every digit is below 8288, and  *)
(* only to_bytes, is_negative and is_non_zero bring the integer into        *)
(* 0..(p - 1).                                                              *)

\* FieldElement::ZERO, FieldElement::ONE
fe_ZERO == <<0, 0, 0, 0, 0, 0, 0, 0, 0, 0, 0,
             0, 0, 0, 0, 0, 0, 0, 0, 0, 0, 0>>

fe_ONE == <<1, 0, 0, 0, 0, 0, 0, 0, 0, 0, 0,
            0, 0, 0, 0, 0, 0, 0, 0, 0, 0, 0>>

\* columns below 2^31 as columns below 8282: each column gives its low 12 bits to
\* its own place and the rest to the next two
fe_split_23(x) ==
    <<(x[1] % 4096),
      (x[2] % 4096) + ((x[1] \div 4096) % 4096),
      (x[3] % 4096) + ((x[2] \div 4096) % 4096) + (x[1] \div 16777216),
      (x[4] % 4096) + ((x[3] \div 4096) % 4096) + (x[2] \div 16777216),
      (x[5] % 4096) + ((x[4] \div 4096) % 4096) + (x[3] \div 16777216),
      (x[6] % 4096) + ((x[5] \div 4096) % 4096) + (x[4] \div 16777216),
      (x[7] % 4096) + ((x[6] \div 4096) % 4096) + (x[5] \div 16777216),
      (x[8] % 4096) + ((x[7] \div 4096) % 4096) + (x[6] \div 16777216),
      (x[9] % 4096) + ((x[8] \div 4096) % 4096) + (x[7] \div 16777216),
      (x[10] % 4096) + ((x[9] \div 4096) % 4096) + (x[8] \div 16777216),
      (x[11] % 4096) + ((x[10] \div 4096) % 4096) + (x[9] \div 16777216),
      (x[12] % 4096) + ((x[11] \div 4096) % 4096) + (x[10] \div 16777216),
      (x[13] % 4096) + ((x[12] \div 4096) % 4096) + (x[11] \div 16777216),
      (x[14] % 4096) + ((x[13] \div 4096) % 4096) + (x[12] \div 16777216),
      (x[15] % 4096) + ((x[14] \div 4096) % 4096) + (x[13] \div 16777216),
      (x[16] % 4096) + ((x[15] \div 4096) % 4096) + (x[14] \div 16777216),
      (x[17] % 4096) + ((x[16] \div 4096) % 4096) + (x[15] \div 16777216),
      (x[18] % 4096) + ((x[17] \div 4096) % 4096) + (x[16] \div 16777216),
      (x[19] % 4096) + ((x[18] \div 4096) % 4096) + (x[17] \div 16777216),
      (x[20] % 4096) + ((x[19] \div 4096) % 4096) + (x[18] \div 16777216),
      (x[21] % 4096) + ((x[20] \div 4096) % 4096) + (x[19] \div 16777216),
      (x[22] % 4096) + ((x[21] \div 4096) % 4096) + (x[20] \div 16777216),
      (x[23] % 4096) + ((x[22] \div 4096) % 4096) + (x[21] \div 16777216),
      ((x[23] \div 4096) % 4096) + (x[22] \div 16777216),
      (x[23] \div 16777216)>>

fe_split_22(x) ==
    <<(x[1] % 4096),
      (x[2] % 4096) + ((x[1] \div 4096) % 4096),
      (x[3] % 4096) + ((x[2] \div 4096) % 4096) + (x[1] \div 16777216),
      (x[4] % 4096) + ((x[3] \div 4096) % 4096) + (x[2] \div 16777216),
      (x[5] % 4096) + ((x[4] \div 4096) % 4096) + (x[3] \div 16777216),
      (x[6] % 4096) + ((x[5] \div 4096) % 4096) + (x[4] \div 16777216),
      (x[7] % 4096) + ((x[6] \div 4096) % 4096) + (x[5] \div 16777216),
      (x[8] % 4096) + ((x[7] \div 4096) % 4096) + (x[6] \div 16777216),
      (x[9] % 4096) + ((x[8] \div 4096) % 4096) + (x[7] \div 16777216),
      (x[10] % 4096) + ((x[9] \div 4096) % 4096) + (x[8] \div 16777216),
      (x[11] % 4096) + ((x[10] \div 4096) % 4096) + (x[9] \div 16777216),
      (x[12] % 4096) + ((x[11] \div 4096) % 4096) + (x[10] \div 16777216),
      (x[13] % 4096) + ((x[12] \div 4096) % 4096) + (x[11] \div 16777216),
      (x[14] % 4096) + ((x[13] \div 4096) % 4096) + (x[12] \div 16777216),
      (x[15] % 4096) + ((x[14] \div 4096) % 4096) + (x[13] \div 16777216),
      (x[16] % 4096) + ((x[15] \div 4096) % 4096) + (x[14] \div 16777216),
      (x[17] % 4096) + ((x[16] \div 4096) % 4096) + (x[15] \div 16777216),
      (x[18] % 4096) + ((x[17] \div 4096) % 4096) + (x[16] \div 16777216),
      (x[19] % 4096) + ((x[18] \div 4096) % 4096) + (x[17] \div 16777216),
      (x[20] % 4096) + ((x[19] \div 4096) % 4096) + (x[18] \div 16777216),
      (x[21] % 4096) + ((x[20] \div 4096) % 4096) + (x[19] \div 16777216),
      (x[22] % 4096) + ((x[21] \div 4096) % 4096) + (x[20] \div 16777216),
      ((x[22] \div 4096) % 4096) + (x[21] \div 16777216)>>

fe_split_43(x) ==
    <<(x[1] % 4096),
      (x[2] % 4096) + ((x[1] \div 4096) % 4096),
      (x[3] % 4096) + ((x[2] \div 4096) % 4096) + (x[1] \div 16777216),
      (x[4] % 4096) + ((x[3] \div 4096) % 4096) + (x[2] \div 16777216),
      (x[5] % 4096) + ((x[4] \div 4096) % 4096) + (x[3] \div 16777216),
      (x[6] % 4096) + ((x[5] \div 4096) % 4096) + (x[4] \div 16777216),
      (x[7] % 4096) + ((x[6] \div 4096) % 4096) + (x[5] \div 16777216),
      (x[8] % 4096) + ((x[7] \div 4096) % 4096) + (x[6] \div 16777216),
      (x[9] % 4096) + ((x[8] \div 4096) % 4096) + (x[7] \div 16777216),
      (x[10] % 4096) + ((x[9] \div 4096) % 4096) + (x[8] \div 16777216),
      (x[11] % 4096) + ((x[10] \div 4096) % 4096) + (x[9] \div 16777216),
      (x[12] % 4096) + ((x[11] \div 4096) % 4096) + (x[10] \div 16777216),
      (x[13] % 4096) + ((x[12] \div 4096) % 4096) + (x[11] \div 16777216),
      (x[14] % 4096) + ((x[13] \div 4096) % 4096) + (x[12] \div 16777216),
      (x[15] % 4096) + ((x[14] \div 4096) % 4096) + (x[13] \div 16777216),
      (x[16] % 4096) + ((x[15] \div 4096) % 4096) + (x[14] \div 16777216),
      (x[17] % 4096) + ((x[16] \div 4096) % 4096) + (x[15] \div 16777216),
      (x[18] % 4096) + ((x[17] \div 4096) % 4096) + (x[16] \div 16777216),
      (x[19] % 4096) + ((x[18] \div 4096) % 4096) + (x[17] \div 16777216),
      (x[20] % 4096) + ((x[19] \div 4096) % 4096) + (x[18] \div 16777216),
      (x[21] % 4096) + ((x[20] \div 4096) % 4096) + (x[19] \div 16777216),
      (x[22] % 4096) + ((x[21] \div 4096) % 4096) + (x[20] \div 16777216),
      (x[23] % 4096) + ((x[22] \div 4096) % 4096) + (x[21] \div 16777216),
      (x[24] % 4096) + ((x[23] \div 4096) % 4096) + (x[22] \div 16777216),
      (x[25] % 4096) + ((x[24] \div 4096) % 4096) + (x[23] \div 16777216),
      (x[26] % 4096) + ((x[25] \div 4096) % 4096) + (x[24] \div 16777216),
      (x[27] % 4096) + ((x[26] \div 4096) % 4096) + (x[25] \div 16777216),
      (x[28] % 4096) + ((x[27] \div 4096) % 4096) + (x[26] \div 16777216),
      (x[29] % 4096) + ((x[28] \div 4096) % 4096) + (x[27] \div 16777216),
      (x[30] % 4096) + ((x[29] \div 4096) % 4096) + (x[28] \div 16777216),
      (x[31] % 4096) + ((x[30] \div 4096) % 4096) + (x[29] \div 16777216),
      (x[32] % 4096) + ((x[31] \div 4096) % 4096) + (x[30] \div 16777216),
      (x[33] % 4096) + ((x[32] \div 4096) % 4096) + (x[31] \div 16777216),
      (x[34] % 4096) + ((x[33] \div 4096) % 4096) + (x[32] \div 16777216),
      (x[35] % 4096) + ((x[34] \div 4096) % 4096) + (x[33] \div 16777216),
      (x[36] % 4096) + ((x[35] \div 4096) % 4096) + (x[34] \div 16777216),
      (x[37] % 4096) + ((x[36] \div 4096) % 4096) + (x[35] \div 16777216),
      (x[38] % 4096) + ((x[37] \div 4096) % 4096) + (x[36] \div 16777216),
      (x[39] % 4096) + ((x[38] \div 4096) % 4096) + (x[37] \div 16777216),
      (x[40] % 4096) + ((x[39] \div 4096) % 4096) + (x[38] \div 16777216),
      (x[41] % 4096) + ((x[40] \div 4096) % 4096) + (x[39] \div 16777216),
      (x[42] % 4096) + ((x[41] \div 4096) % 4096) + (x[40] \div 16777216),
      (x[43] % 4096) + ((x[42] \div 4096) % 4096) + (x[41] \div 16777216),
      ((x[43] \div 4096) % 4096) + (x[42] \div 16777216),
      (x[43] \div 16777216)>>

\* 2^264 is 9728 = 512 * 19 modulo p: what stands above 22 digits comes back
\* multiplied by 9728
fe_fold_45(y) ==
    <<y[1] + (9728 * y[23]), y[2] + (9728 * y[24]),
      y[3] + (9728 * y[25]), y[4] + (9728 * y[26]),
      y[5] + (9728 * y[27]), y[6] + (9728 * y[28]),
      y[7] + (9728 * y[29]), y[8] + (9728 * y[30]),
      y[9] + (9728 * y[31]), y[10] + (9728 * y[32]),
      y[11] + (9728 * y[33]), y[12] + (9728 * y[34]),
      y[13] + (9728 * y[35]), y[14] + (9728 * y[36]),
      y[15] + (9728 * y[37]), y[16] + (9728 * y[38]),
      y[17] + (9728 * y[39]), y[18] + (9728 * y[40]),
      y[19] + (9728 * y[41]), y[20] + (9728 * y[42]),
      y[21] + (9728 * y[43]), y[22] + (9728 * y[44]),
      9728 * y[45]>>

fe_fold_25(y) ==
    <<y[1] + (9728 * y[23]), y[2] + (9728 * y[24]), y[3] + (9728 * y[25]),
      y[4], y[5], y[6],
      y[7], y[8], y[9],
      y[10], y[11], y[12],
      y[13], y[14], y[15],
      y[16], y[17], y[18],
      y[19], y[20], y[21],
      y[22]>>

\* the last fold: the digit above (2 at most) comes back into the first two
fe_fold_23(u) ==
    <<(u[1] + (9728 * u[23])) % 4096, u[2] + ((u[1] + (9728 * u[23])) \div 4096),
      u[3], u[4],
      u[5], u[6],
      u[7], u[8],
      u[9], u[10],
      u[11], u[12],
      u[13], u[14],
      u[15], u[16],
      u[17], u[18],
      u[19], u[20],
      u[21], u[22]>>

\* the element 23 columns below 2^31 stand for
fe_weak(z) == fe_fold_23(fe_split_22(fe_fold_25(fe_split_23(z))))

\* impl Add for FieldElement
fe_add(a, b) ==
    IF Len(a) = Len(b)
    THEN fe_weak(<<a[1] + b[1], a[2] + b[2], a[3] + b[3], a[4] + b[4],
                   a[5] + b[5], a[6] + b[6], a[7] + b[7], a[8] + b[8],
                   a[9] + b[9], a[10] + b[10], a[11] + b[11], a[12] + b[12],
                   a[13] + b[13], a[14] + b[14], a[15] + b[15], a[16] + b[16],
                   a[17] + b[17], a[18] + b[18], a[19] + b[19], a[20] + b[20],
                   a[21] + b[21], a[22] + b[22], 0>>)
    ELSE fe_ZERO

\* impl Sub for FieldElement: a + 2048 * p - b, 2048 * p written with digits of
\* 8288 or more
fe_sub(a, b) ==
    IF Len(a) = Len(b)
    THEN fe_weak(<<(a[1] + 10240) - b[1], (a[2] + 12276) - b[2], (a[3] + 12285) - b[3],
                   (a[4] + 12285) - b[4], (a[5] + 12285) - b[5], (a[6] + 12285) - b[6],
                   (a[7] + 12285) - b[7], (a[8] + 12285) - b[8], (a[9] + 12285) - b[9],
                   (a[10] + 12285) - b[10], (a[11] + 12285) - b[11], (a[12] + 12285) - b[12],
                   (a[13] + 12285) - b[13], (a[14] + 12285) - b[14], (a[15] + 12285) - b[15],
                   (a[16] + 12285) - b[16], (a[17] + 12285) - b[17], (a[18] + 12285) - b[18],
                   (a[19] + 12285) - b[19], (a[20] + 12285) - b[20], (a[21] + 12285) - b[21],
                   (a[22] + 16381) - b[22], 0>>)
    ELSE fe_ZERO

\* impl Neg for FieldElement
fe_neg(a) == fe_sub(fe_ZERO, a)

\* impl Mul for FieldElement: the 43 columns of the product of the digits
fe_columns(a, b) ==
    <<(a[1] * b[1]),
      (a[1] * b[2]) + (a[2] * b[1]),
      ((a[1] * b[3]) + (a[2] * b[2])) + (a[3] * b[1]),
      ((a[1] * b[4]) + (a[2] * b[3])) + ((a[3] * b[2]) + (a[4] * b[1])),
      (((a[1] * b[5]) + (a[2] * b[4])) + (a[3] * b[3])) + ((a[4] * b[2]) + (a[5] * b[1])),
      (((a[1] * b[6]) + (a[2] * b[5])) + (a[3] * b[4])) + (((a[4] * b[3]) + (a[5] * b[2])) + (a[6] * b[1])),
      (((a[1] * b[7]) + (a[2] * b[6])) + ((a[3] * b[5]) + (a[4] * b[4]))) + (((a[5] * b[3]) + (a[6] * b[2])) + (a[7] * b[1])),
      (((a[1] * b[8]) + (a[2] * b[7])) + ((a[3] * b[6]) + (a[4] * b[5]))) + (((a[5] * b[4]) + (a[6] * b[3])) + ((a[7] * b[2]) + (a[8] * b[1]))),
      ((((a[1] * b[9]) + (a[2] * b[8])) + (a[3] * b[7])) + ((a[4] * b[6]) + (a[5] * b[5]))) + (((a[6] * b[4]) + (a[7] * b[3])) + ((a[8] * b[2]) + (a[9] * b[1]))),
      ((((a[1] * b[10]) + (a[2] * b[9])) + (a[3] * b[8])) + ((a[4] * b[7]) + (a[5] * b[6]))) + ((((a[6] * b[5]) + (a[7] * b[4])) + (a[8] * b[3])) + ((a[9] * b[2]) + (a[10] * b[1]))),
      ((((a[1] * b[11]) + (a[2] * b[10])) + (a[3] * b[9])) + (((a[4] * b[8]) + (a[5] * b[7])) + (a[6] * b[6]))) + ((((a[7] * b[5]) + (a[8] * b[4])) + (a[9] * b[3])) + ((a[10] * b[2]) + (a[11] * b[1]))),
      ((((a[1] * b[12]) + (a[2] * b[11])) + (a[3] * b[10])) + (((a[4] * b[9]) + (a[5] * b[8])) + (a[6] * b[7]))) + ((((a[7] * b[6]) + (a[8] * b[5])) + (a[9] * b[4])) + (((a[10] * b[3]) + (a[11] * b[2])) + (a[12] * b[1]))),
      ((((a[1] * b[13]) + (a[2] * b[12])) + ((a[3] * b[11]) + (a[4] * b[10]))) + (((a[5] * b[9]) + (a[6] * b[8])) + (a[7] * b[7]))) + ((((a[8] * b[6]) + (a[9] * b[5])) + (a[10] * b[4])) + (((a[11] * b[3]) + (a[12] * b[2])) + (a[13] * b[1]))),
      ((((a[1] * b[14]) + (a[2] * b[13])) + ((a[3] * b[12]) + (a[4] * b[11]))) + (((a[5] * b[10]) + (a[6] * b[9])) + (a[7] * b[8]))) + ((((a[8] * b[7]) + (a[9] * b[6])) + ((a[10] * b[5]) + (a[11] * b[4]))) + (((a[12] * b[3]) + (a[13] * b[2])) + (a[14] * b[1]))),
      ((((a[1] * b[15]) + (a[2] * b[14])) + ((a[3] * b[13]) + (a[4] * b[12]))) + (((a[5] * b[11]) + (a[6] * b[10])) + ((a[7] * b[9]) + (a[8] * b[8])))) + ((((a[9] * b[7]) + (a[10] * b[6])) + ((a[11] * b[5]) + (a[12] * b[4]))) + (((a[13] * b[3]) + (a[14] * b[2])) + (a[15] * b[1]))),
      ((((a[1] * b[16]) + (a[2] * b[15])) + ((a[3] * b[14]) + (a[4] * b[13]))) + (((a[5] * b[12]) + (a[6] * b[11])) + ((a[7] * b[10]) + (a[8] * b[9])))) + ((((a[9] * b[8]) + (a[10] * b[7])) + ((a[11] * b[6]) + (a[12] * b[5]))) + (((a[13] * b[4]) + (a[14] * b[3])) + ((a[15] * b[2]) + (a[16] * b[1])))),
      (((((a[1] * b[17]) + (a[2] * b[16])) + (a[3] * b[15])) + ((a[4] * b[14]) + (a[5] * b[13]))) + (((a[6] * b[12]) + (a[7] * b[11])) + ((a[8] * b[10]) + (a[9] * b[9])))) + ((((a[10] * b[8]) + (a[11] * b[7])) + ((a[12] * b[6]) + (a[13] * b[5]))) + (((a[14] * b[4]) + (a[15] * b[3])) + ((a[16] * b[2]) + (a[17] * b[1])))),
      (((((a[1] * b[18]) + (a[2] * b[17])) + (a[3] * b[16])) + ((a[4] * b[15]) + (a[5] * b[14]))) + (((a[6] * b[13]) + (a[7] * b[12])) + ((a[8] * b[11]) + (a[9] * b[10])))) + (((((a[10] * b[9]) + (a[11] * b[8])) + (a[12] * b[7])) + ((a[13] * b[6]) + (a[14] * b[5]))) + (((a[15] * b[4]) + (a[16] * b[3])) + ((a[17] * b[2]) + (a[18] * b[1])))),
      (((((a[1] * b[19]) + (a[2] * b[18])) + (a[3] * b[17])) + ((a[4] * b[16]) + (a[5] * b[15]))) + ((((a[6] * b[14]) + (a[7] * b[13])) + (a[8] * b[12])) + ((a[9] * b[11]) + (a[10] * b[10])))) + (((((a[11] * b[9]) + (a[12] * b[8])) + (a[13] * b[7])) + ((a[14] * b[6]) + (a[15] * b[5]))) + (((a[16] * b[4]) + (a[17] * b[3])) + ((a[18] * b[2]) + (a[19] * b[1])))),
      (((((a[1] * b[20]) + (a[2] * b[19])) + (a[3] * b[18])) + ((a[4] * b[17]) + (a[5] * b[16]))) + ((((a[6] * b[15]) + (a[7] * b[14])) + (a[8] * b[13])) + ((a[9] * b[12]) + (a[10] * b[11])))) + (((((a[11] * b[10]) + (a[12] * b[9])) + (a[13] * b[8])) + ((a[14] * b[7]) + (a[15] * b[6]))) + ((((a[16] * b[5]) + (a[17] * b[4])) + (a[18] * b[3])) + ((a[19] * b[2]) + (a[20] * b[1])))),
      (((((a[1] * b[21]) + (a[2] * b[20])) + (a[3] * b[19])) + (((a[4] * b[18]) + (a[5] * b[17])) + (a[6] * b[16]))) + ((((a[7] * b[15]) + (a[8] * b[14])) + (a[9] * b[13])) + ((a[10] * b[12]) + (a[11] * b[11])))) + (((((a[12] * b[10]) + (a[13] * b[9])) + (a[14] * b[8])) + ((a[15] * b[7]) + (a[16] * b[6]))) + ((((a[17] * b[5]) + (a[18] * b[4])) + (a[19] * b[3])) + ((a[20] * b[2]) + (a[21] * b[1])))),
      (((((a[1] * b[22]) + (a[2] * b[21])) + (a[3] * b[20])) + (((a[4] * b[19]) + (a[5] * b[18])) + (a[6] * b[17]))) + ((((a[7] * b[16]) + (a[8] * b[15])) + (a[9] * b[14])) + ((a[10] * b[13]) + (a[11] * b[12])))) + (((((a[12] * b[11]) + (a[13] * b[10])) + (a[14] * b[9])) + (((a[15] * b[8]) + (a[16] * b[7])) + (a[17] * b[6]))) + ((((a[18] * b[5]) + (a[19] * b[4])) + (a[20] * b[3])) + ((a[21] * b[2]) + (a[22] * b[1])))),
      (((((a[2] * b[22]) + (a[3] * b[21])) + (a[4] * b[20])) + (((a[5] * b[19]) + (a[6] * b[18])) + (a[7] * b[17]))) + ((((a[8] * b[16]) + (a[9] * b[15])) + (a[10] * b[14])) + ((a[11] * b[13]) + (a[12] * b[12])))) + (((((a[13] * b[11]) + (a[14] * b[10])) + (a[15] * b[9])) + ((a[16] * b[8]) + (a[17] * b[7]))) + ((((a[18] * b[6]) + (a[19] * b[5])) + (a[20] * b[4])) + ((a[21] * b[3]) + (a[22] * b[2])))),
      (((((a[3] * b[22]) + (a[4] * b[21])) + (a[5] * b[20])) + ((a[6] * b[19]) + (a[7] * b[18]))) + ((((a[8] * b[17]) + (a[9] * b[16])) + (a[10] * b[15])) + ((a[11] * b[14]) + (a[12] * b[13])))) + (((((a[13] * b[12]) + (a[14] * b[11])) + (a[15] * b[10])) + ((a[16] * b[9]) + (a[17] * b[8]))) + ((((a[18] * b[7]) + (a[19] * b[6])) + (a[20] * b[5])) + ((a[21] * b[4]) + (a[22] * b[3])))),
      (((((a[4] * b[22]) + (a[5] * b[21])) + (a[6] * b[20])) + ((a[7] * b[19]) + (a[8] * b[18]))) + ((((a[9] * b[17]) + (a[10] * b[16])) + (a[11] * b[15])) + ((a[12] * b[14]) + (a[13] * b[13])))) + (((((a[14] * b[12]) + (a[15] * b[11])) + (a[16] * b[10])) + ((a[17] * b[9]) + (a[18] * b[8]))) + (((a[19] * b[7]) + (a[20] * b[6])) + ((a[21] * b[5]) + (a[22] * b[4])))),
      (((((a[5] * b[22]) + (a[6] * b[21])) + (a[7] * b[20])) + ((a[8] * b[19]) + (a[9] * b[18]))) + (((a[10] * b[17]) + (a[11] * b[16])) + ((a[12] * b[15]) + (a[13] * b[14])))) + (((((a[14] * b[13]) + (a[15] * b[12])) + (a[16] * b[11])) + ((a[17] * b[10]) + (a[18] * b[9]))) + (((a[19] * b[8]) + (a[20] * b[7])) + ((a[21] * b[6]) + (a[22] * b[5])))),
      (((((a[6] * b[22]) + (a[7] * b[21])) + (a[8] * b[20])) + ((a[9] * b[19]) + (a[10] * b[18]))) + (((a[11] * b[17]) + (a[12] * b[16])) + ((a[13] * b[15]) + (a[14] * b[14])))) + ((((a[15] * b[13]) + (a[16] * b[12])) + ((a[17] * b[11]) + (a[18] * b[10]))) + (((a[19] * b[9]) + (a[20] * b[8])) + ((a[21] * b[7]) + (a[22] * b[6])))),
      ((((a[7] * b[22]) + (a[8] * b[21])) + ((a[9] * b[20]) + (a[10] * b[19]))) + (((a[11] * b[18]) + (a[12] * b[17])) + ((a[13] * b[16]) + (a[14] * b[15])))) + ((((a[15] * b[14]) + (a[16] * b[13])) + ((a[17] * b[12]) + (a[18] * b[11]))) + (((a[19] * b[10]) + (a[20] * b[9])) + ((a[21] * b[8]) + (a[22] * b[7])))),
      ((((a[8] * b[22]) + (a[9] * b[21])) + ((a[10] * b[20]) + (a[11] * b[19]))) + (((a[12] * b[18]) + (a[13] * b[17])) + ((a[14] * b[16]) + (a[15] * b[15])))) + ((((a[16] * b[14]) + (a[17] * b[13])) + ((a[18] * b[12]) + (a[19] * b[11]))) + (((a[20] * b[10]) + (a[21] * b[9])) + (a[22] * b[8]))),
      ((((a[9] * b[22]) + (a[10] * b[21])) + ((a[11] * b[20]) + (a[12] * b[19]))) + (((a[13] * b[18]) + (a[14] * b[17])) + (a[15] * b[16]))) + ((((a[16] * b[15]) + (a[17] * b[14])) + ((a[18] * b[13]) + (a[19] * b[12]))) + (((a[20] * b[11]) + (a[21] * b[10])) + (a[22] * b[9]))),
      ((((a[10] * b[22]) + (a[11] * b[21])) + ((a[12] * b[20]) + (a[13] * b[19]))) + (((a[14] * b[18]) + (a[15] * b[17])) + (a[16] * b[16]))) + ((((a[17] * b[15]) + (a[18] * b[14])) + (a[19] * b[13])) + (((a[20] * b[12]) + (a[21] * b[11])) + (a[22] * b[10]))),
      ((((a[11] * b[22]) + (a[12] * b[21])) + (a[13] * b[20])) + (((a[14] * b[19]) + (a[15] * b[18])) + (a[16] * b[17]))) + ((((a[17] * b[16]) + (a[18] * b[15])) + (a[19] * b[14])) + (((a[20] * b[13]) + (a[21] * b[12])) + (a[22] * b[11]))),
      ((((a[12] * b[22]) + (a[13] * b[21])) + (a[14] * b[20])) + (((a[15] * b[19]) + (a[16] * b[18])) + (a[17] * b[17]))) + ((((a[18] * b[16]) + (a[19] * b[15])) + (a[20] * b[14])) + ((a[21] * b[13]) + (a[22] * b[12]))),
      ((((a[13] * b[22]) + (a[14] * b[21])) + (a[15] * b[20])) + ((a[16] * b[19]) + (a[17] * b[18]))) + ((((a[18] * b[17]) + (a[19] * b[16])) + (a[20] * b[15])) + ((a[21] * b[14]) + (a[22] * b[13]))),
      ((((a[14] * b[22]) + (a[15] * b[21])) + (a[16] * b[20])) + ((a[17] * b[19]) + (a[18] * b[18]))) + (((a[19] * b[17]) + (a[20] * b[16])) + ((a[21] * b[15]) + (a[22] * b[14]))),
      (((a[15] * b[22]) + (a[16] * b[21])) + ((a[17] * b[20]) + (a[18] * b[19]))) + (((a[19] * b[18]) + (a[20] * b[17])) + ((a[21] * b[16]) + (a[22] * b[15]))),
      (((a[16] * b[22]) + (a[17] * b[21])) + ((a[18] * b[20]) + (a[19] * b[19]))) + (((a[20] * b[18]) + (a[21] * b[17])) + (a[22] * b[16])),
      (((a[17] * b[22]) + (a[18] * b[21])) + (a[19] * b[20])) + (((a[20] * b[19]) + (a[21] * b[18])) + (a[22] * b[17])),
      (((a[18] * b[22]) + (a[19] * b[21])) + (a[20] * b[20])) + ((a[21] * b[19]) + (a[22] * b[18])),
      ((a[19] * b[22]) + (a[20] * b[21])) + ((a[21] * b[20]) + (a[22] * b[19])),
      ((a[20] * b[22]) + (a[21] * b[21])) + (a[22] * b[20]),
      (a[21] * b[22]) + (a[22] * b[21]),
      (a[22] * b[22])>>

fe_mul(a, b) ==
    IF Len(a) = Len(b) THEN fe_weak(fe_fold_45(fe_split_43(fe_columns(a, b)))) ELSE fe_ZERO

\* FieldElement::square
fe_square(a) == fe_mul(a, a)

\* FieldElement::mul121666
fe_mul121666(a) ==
    fe_weak(<<121666 * a[1], 121666 * a[2], 121666 * a[3], 121666 * a[4],
              121666 * a[5], 121666 * a[6], 121666 * a[7], 121666 * a[8],
              121666 * a[9], 121666 * a[10], 121666 * a[11], 121666 * a[12],
              121666 * a[13], 121666 * a[14], 121666 * a[15], 121666 * a[16],
              121666 * a[17], 121666 * a[18], 121666 * a[19], 121666 * a[20],
              121666 * a[21], 121666 * a[22], 0>>)

\* FieldElement::from_bytes: the low 255 bits of the 32 bytes, the least
\* significant byte first
fe_from_bytes(input) ==
    <<input[1] + (256 * (input[2] % 16)), (input[2] \div 16) + (16 * input[3]),
      input[4] + (256 * (input[5] % 16)), (input[5] \div 16) + (16 * input[6]),
      input[7] + (256 * (input[8] % 16)), (input[8] \div 16) + (16 * input[9]),
      input[10] + (256 * (input[11] % 16)), (input[11] \div 16) + (16 * input[12]),
      input[13] + (256 * (input[14] % 16)), (input[14] \div 16) + (16 * input[15]),
      input[16] + (256 * (input[17] % 16)), (input[17] \div 16) + (16 * input[18]),
      input[19] + (256 * (input[20] % 16)), (input[20] \div 16) + (16 * input[21]),
      input[22] + (256 * (input[23] % 16)), (input[23] \div 16) + (16 * input[24]),
      input[25] + (256 * (input[26] % 16)), (input[26] \div 16) + (16 * input[27]),
      input[28] + (256 * (input[29] % 16)), (input[29] \div 16) + (16 * input[30]),
      input[31] + (256 * (input[32] % 16)), (input[32] \div 16) % 8>>

\* the digits of a number given by columns, and what is left above them
fe_carry_step(s, i) ==
    [x |-> s.x, digits |-> Append(s.digits, (s.x[i] + s.carry) % 4096),
     carry |-> (s.x[i] + s.carry) \div 4096]

fe_carried(x) == FoldStrict(fe_carry_step, [x |-> x, digits |-> <<>>, carry |-> 0], 1, Len(x))

\* d - p when d is p or more, d being below 2^255
fe_final(d) ==
    IF /\ d[22] = 7
       /\ d[1] >= 4077
       /\ \A i \in 2..21 : d[i] = 4095
    THEN <<d[1] - 4077, 0, 0, 0, 0, 0, 0, 0, 0, 0, 0,
           0, 0, 0, 0, 0, 0, 0, 0, 0, 0, 0>>
    ELSE d

\* what is above 2^255 comes back multiplied by 19, until nothing is above
RECURSIVE fe_fold(_)
fe_fold(r) ==
    IF r.carry = 0 /\ r.digits[22] < 8 THEN fe_final(r.digits)
    ELSE fe_fold(fe_carried([r.digits EXCEPT
                              ![1] = @ + (19 * ((512 * r.carry) + (r.digits[22] \div 8))),
                              ![22] = @ % 8]))

\* the integer of the element in 0..(p - 1), in digits below 4096
fe_canonical(a) == fe_fold(fe_carried(a))

\* the 32 bytes of an integer below 2^256 given in digits below 4096
fe_digits_to_bytes(d) ==
    <<d[1] % 256, (d[1] \div 256) + (16 * (d[2] % 16)), d[2] \div 16,
      d[3] % 256, (d[3] \div 256) + (16 * (d[4] % 16)), d[4] \div 16,
      d[5] % 256, (d[5] \div 256) + (16 * (d[6] % 16)), d[6] \div 16,
      d[7] % 256, (d[7] \div 256) + (16 * (d[8] % 16)), d[8] \div 16,
      d[9] % 256, (d[9] \div 256) + (16 * (d[10] % 16)), d[10] \div 16,
      d[11] % 256, (d[11] \div 256) + (16 * (d[12] % 16)), d[12] \div 16,
      d[13] % 256, (d[13] \div 256) + (16 * (d[14] % 16)), d[14] \div 16,
      d[15] % 256, (d[15] \div 256) + (16 * (d[16] % 16)), d[16] \div 16,
      d[17] % 256, (d[17] \div 256) + (16 * (d[18] % 16)), d[18] \div 16,
      d[19] % 256, (d[19] \div 256) + (16 * (d[20] % 16)), d[20] \div 16,
      d[21] % 256, (d[21] \div 256) + (16 * (d[22] % 16))>>

\* FieldElement::to_bytes: the 32 bytes of the integer in 0..(p - 1)
fe_to_bytes(a) == fe_digits_to_bytes(fe_canonical(a))

\* FieldElement::is_negative: the low bit of the integer in 0..(p - 1)
fe_is_negative(a) == fe_canonical(a)[1] % 2

\* FieldElement::is_non_zero
fe_is_non_zero(a) == IF fe_canonical(a) = fe_ZERO THEN 0 ELSE 1

\* FieldElement::invert, the power p - 2 = 2^255 - 21, and FieldElement::pow22523, the
\* power (p - 5) / 8 = 2^252 - 3: the statements in order.  square and n_square(n) are n
\* squarings of a into dst, a product is of a and b into dst; out is the value returned
invert_statements ==
    <<[op |-> "n_square", dst |-> "t0", a |-> "self", b |-> "self", n |-> 1],
      [op |-> "n_square", dst |-> "t1", a |-> "t0", b |-> "t0", n |-> 2],
      [op |-> "mul", dst |-> "t1", a |-> "self", b |-> "t1", n |-> 1],
      [op |-> "mul", dst |-> "t0", a |-> "t0", b |-> "t1", n |-> 1],
      [op |-> "n_square", dst |-> "t2", a |-> "t0", b |-> "t0", n |-> 1],
      [op |-> "mul", dst |-> "t1", a |-> "t1", b |-> "t2", n |-> 1],
      [op |-> "n_square", dst |-> "t2", a |-> "t1", b |-> "t1", n |-> 5],
      [op |-> "mul", dst |-> "t1", a |-> "t2", b |-> "t1", n |-> 1],
      [op |-> "n_square", dst |-> "t2", a |-> "t1", b |-> "t1", n |-> 10],
      [op |-> "mul", dst |-> "t2", a |-> "t2", b |-> "t1", n |-> 1],
      [op |-> "n_square", dst |-> "t3", a |-> "t2", b |-> "t2", n |-> 20],
      [op |-> "mul", dst |-> "t2", a |-> "t3", b |-> "t2", n |-> 1],
      [op |-> "n_square", dst |-> "t2", a |-> "t2", b |-> "t2", n |-> 10],
      [op |-> "mul", dst |-> "t1", a |-> "t2", b |-> "t1", n |-> 1],
      [op |-> "n_square", dst |-> "t2", a |-> "t1", b |-> "t1", n |-> 50],
      [op |-> "mul", dst |-> "t2", a |-> "t2", b |-> "t1", n |-> 1],
      [op |-> "n_square", dst |-> "t3", a |-> "t2", b |-> "t2", n |-> 100],
      [op |-> "mul", dst |-> "t2", a |-> "t3", b |-> "t2", n |-> 1],
      [op |-> "n_square", dst |-> "t2", a |-> "t2", b |-> "t2", n |-> 50],
      [op |-> "mul", dst |-> "t1", a |-> "t2", b |-> "t1", n |-> 1],
      [op |-> "n_square", dst |-> "t1", a |-> "t1", b |-> "t1", n |-> 5],
      [op |-> "mul", dst |-> "out", a |-> "t1", b |-> "t0", n |-> 1]>>

pow22523_statements ==
    <<[op |-> "n_square", dst |-> "t0", a |-> "self", b |-> "self", n |-> 1],
      [op |-> "n_square", dst |-> "t1", a |-> "t0", b |-> "t0", n |-> 2],
      [op |-> "mul", dst |-> "t1", a |-> "self", b |-> "t1", n |-> 1],
      [op |-> "mul", dst |-> "t0", a |-> "t0", b |-> "t1", n |-> 1],
      [op |-> "n_square", dst |-> "t0", a |-> "t0", b |-> "t0", n |-> 1],
      [op |-> "mul", dst |-> "t0", a |-> "t1", b |-> "t0", n |-> 1],
      [op |-> "n_square", dst |-> "t1", a |-> "t0", b |-> "t0", n |-> 5],
      [op |-> "mul", dst |-> "t0", a |-> "t1", b |-> "t0", n |-> 1],
      [op |-> "n_square", dst |-> "t1", a |-> "t0", b |-> "t0", n |-> 10],
      [op |-> "mul", dst |-> "t1", a |-> "t1", b |-> "t0", n |-> 1],
      [op |-> "n_square", dst |-> "t2", a |-> "t1", b |-> "t1", n |-> 20],
      [op |-> "mul", dst |-> "t1", a |-> "t2", b |-> "t1", n |-> 1],
      [op |-> "n_square", dst |-> "t1", a |-> "t1", b |-> "t1", n |-> 10],
      [op |-> "mul", dst |-> "t0", a |-> "t1", b |-> "t0", n |-> 1],
      [op |-> "n_square", dst |-> "t1", a |-> "t0", b |-> "t0", n |-> 50],
      [op |-> "mul", dst |-> "t1", a |-> "t1", b |-> "t0", n |-> 1],
      [op |-> "n_square", dst |-> "t2", a |-> "t1", b |-> "t1", n |-> 100],
      [op |-> "mul", dst |-> "t1", a |-> "t2", b |-> "t1", n |-> 1],
      [op |-> "n_square", dst |-> "t1", a |-> "t1", b |-> "t1", n |-> 50],
      [op |-> "mul", dst |-> "t0", a |-> "t1", b |-> "t0", n |-> 1],
      [op |-> "n_square", dst |-> "t0", a |-> "t0", b |-> "t0", n |-> 2],
      [op |-> "mul", dst |-> "out", a |-> "t0", b |-> "self", n |-> 1]>>

\* a call of invert or pow22523 at its first statement: the statements of the function,
\* the one it is at, the squarings done of it and the values of self and the variables
fe_chain_begin(statements, self) ==
    [statements |-> statements, at |-> 1, squared |-> 0,
     values |-> [self |-> self, t0 |-> fe_ZERO, t1 |-> fe_ZERO, t2 |-> fe_ZERO,
                 t3 |-> fe_ZERO, out |-> fe_ZERO]]

\* one product or one squaring of the statement st
fe_chain_statement(c, stmt) ==
    IF stmt.op = "mul"
    THEN [c EXCEPT !.at = c.at + 1,
                   !.values[stmt.dst] = fe_mul(c.values[stmt.a], c.values[stmt.b])]
    ELSE [c EXCEPT !.at = IF c.squared + 1 = stmt.n THEN c.at + 1 ELSE c.at,
                   !.squared = IF c.squared + 1 = stmt.n THEN 0 ELSE c.squared + 1,
                   !.values[stmt.dst] =
                       fe_square(IF c.squared = 0 THEN c.values[stmt.a] ELSE c.values[stmt.dst])]

fe_chain_step(c) == fe_chain_statement(c, c.statements[c.at])

\* the function has returned
fe_chain_done(c) == c.at > Len(c.statements)

-----------------------------------------------------------------------------
(* hash/sha512: SHA-512.  A u64 of the hash is written as 4 limbs of 16    *)
(* bits, the most significant first.  A call of sha512 is a record: the    *)
(* blocks it compresses, the block and the round it is at, the chaining    *)
(* state, the working variables and the 16 schedule words in use.          *)

\* the limb of weight 65536^i of a word, and 0 above the word
w64_limb(x, i) == IF i > 3 THEN 0 ELSE x[4 - i]

\* u64::rotate_right(n)
w64_rotr_limb(x, i, q, r) ==
    (w64_limb(x, (i + q) % 4) \div (2 ^ r))
    + ((w64_limb(x, (i + q + 1) % 4) % (2 ^ r)) * (2 ^ (16 - r)))

w64_rotr(x, n) ==
    <<w64_rotr_limb(x, 3, n \div 16, n % 16), w64_rotr_limb(x, 2, n \div 16, n % 16),
      w64_rotr_limb(x, 1, n \div 16, n % 16), w64_rotr_limb(x, 0, n \div 16, n % 16)>>

\* x >> n
w64_shr_limb(x, i, q, r) ==
    (w64_limb(x, i + q) \div (2 ^ r))
    + ((w64_limb(x, i + q + 1) % (2 ^ r)) * (2 ^ (16 - r)))

w64_shr(x, n) ==
    <<w64_shr_limb(x, 3, n \div 16, n % 16), w64_shr_limb(x, 2, n \div 16, n % 16),
      w64_shr_limb(x, 1, n \div 16, n % 16), w64_shr_limb(x, 0, n \div 16, n % 16)>>

\* x ^ y, x & y, !x
w64_xor(x, y) ==
    <<Xor16(x[1], y[1]), Xor16(x[2], y[2]), Xor16(x[3], y[3]), Xor16(x[4], y[4])>>

w64_and(x, y) ==
    <<And16(x[1], y[1]), And16(x[2], y[2]), And16(x[3], y[3]), And16(x[4], y[4])>>

w64_not(x) == <<65535 - x[1], 65535 - x[2], 65535 - x[3], 65535 - x[4]>>

\* the word of four columns: what leaves the 64 bits is lost
w64_carried(c4, c3, c2, c1) ==
    <<(c1 + ((c2 + ((c3 + (c4 \div 65536)) \div 65536)) \div 65536)) % 65536,
      (c2 + ((c3 + (c4 \div 65536)) \div 65536)) % 65536,
      (c3 + (c4 \div 65536)) % 65536,
      c4 % 65536>>

\* x.wrapping_add(y)
w64_add(x, y) == w64_carried(x[4] + y[4], x[3] + y[3], x[2] + y[2], x[1] + y[1])

\* four and five words added
w64_add4(x, y, z, u) ==
    w64_carried(x[4] + y[4] + z[4] + u[4], x[3] + y[3] + z[3] + u[3],
                x[2] + y[2] + z[2] + u[2], x[1] + y[1] + z[1] + u[1])

w64_add5(x, y, z, u, v) ==
    w64_carried(x[4] + y[4] + z[4] + u[4] + v[4], x[3] + y[3] + z[3] + u[3] + v[3],
                x[2] + y[2] + z[2] + u[2] + v[2], x[1] + y[1] + z[1] + u[1] + v[1])

\* u64::from_be_bytes, u64::to_be_bytes
w64_from_be_bytes(b, at) ==
    <<(256 * b[at]) + b[at + 1], (256 * b[at + 2]) + b[at + 3],
      (256 * b[at + 4]) + b[at + 5], (256 * b[at + 6]) + b[at + 7]>>

w64_to_be_bytes(x) ==
    <<x[1] \div 256, x[1] % 256, x[2] \div 256, x[2] % 256,
      x[3] \div 256, x[3] % 256, x[4] \div 256, x[4] % 256>>

\* computations.rs, as FIPS 180-4 defines the functions of SHA-512
sha512_small_sigma0(x) == w64_xor(w64_xor(w64_rotr(x, 1), w64_rotr(x, 8)), w64_shr(x, 7))

sha512_small_sigma1(x) == w64_xor(w64_xor(w64_rotr(x, 19), w64_rotr(x, 61)), w64_shr(x, 6))

sha512_big_sigma0(x) == w64_xor(w64_xor(w64_rotr(x, 28), w64_rotr(x, 34)), w64_rotr(x, 39))

sha512_big_sigma1(x) == w64_xor(w64_xor(w64_rotr(x, 14), w64_rotr(x, 18)), w64_rotr(x, 41))

sha512_ch(e, f, g) == w64_xor(w64_and(e, f), w64_and(w64_not(e), g))

sha512_maj(a, b, c) == w64_xor(w64_xor(w64_and(a, b), w64_and(a, c)), w64_and(b, c))

\* H512_INIT and K512: the constants of FIPS 180-4
H512_INIT ==
    <<<<27145, 58983, 62396, 51464>>, <<47975, 44677, 33994, 42811>>,
      <<15470, 62322, 65172, 63531>>, <<42319, 62778, 24349, 14065>>,
      <<20750, 21119, 44518, 33489>>, <<39685, 26764, 11070, 27679>>,
      <<8067, 55723, 64321, 48491>>, <<23520, 52505, 4990, 8569>>>>

K512 ==
    <<<<17034, 12184, 55080, 44578>>, <<28983, 17553, 9199, 26061>>,
      <<46528, 64463, 60493, 15151>>, <<59829, 56229, 33161, 56252>>,
      <<14678, 49755, 62280, 46392>>, <<23025, 4593, 46597, 53273>>,
      <<37439, 33444, 44825, 20379>>, <<43804, 24277, 55917, 33048>>,
      <<55303, 43672, 41731, 578>>, <<4739, 23297, 17776, 28606>>,
      <<9265, 34238, 20196, 45708>>, <<21772, 32195, 54783, 46306>>,
      <<29374, 23924, 62075, 35183>>, <<32990, 45566, 15126, 38577>>,
      <<39900, 1703, 9671, 4661>>, <<49563, 61812, 53097, 9876>>,
      <<58523, 27073, 40689, 19154>>, <<61374, 18310, 14415, 9699>>,
      <<4033, 40390, 35724, 54709>>, <<9228, 41420, 30636, 40037>>,
      <<11753, 11375, 22827, 629>>, <<19060, 33962, 28326, 58499>>,
      <<23728, 43484, 48449, 64468>>, <<30457, 35034, 33553, 21429>>,
      <<38974, 20818, 61030, 57259>>, <<43057, 50797, 11700, 12816>>,
      <<45059, 10184, 39163, 8511>>, <<48985, 32711, 48879, 3812>>,
      <<50912, 3059, 15784, 36802>>, <<54695, 37191, 37642, 42789>>,
      <<1738, 25425, 57347, 33391>>, <<5161, 10599, 2574, 28272>>,
      <<10167, 2693, 18130, 12284>>, <<11803, 8504, 23590, 51494>>,
      <<19756, 28156, 23236, 10989>>, <<21304, 3347, 40341, 46047>>,
      <<25866, 29524, 35759, 25566>>, <<30314, 2747, 15479, 45736>>,
      <<33218, 51502, 18413, 44774>>, <<37490, 11397, 5250, 13627>>,
      <<41663, 59553, 19697, 868>>, <<43034, 26187, 48194, 12289>>,
      <<49739, 35696, 53496, 38801>>, <<51052, 20899, 1620, 48688>>,
      <<53650, 59417, 55023, 21016>>, <<54937, 1572, 21861, 43280>>,
      <<62478, 13701, 22385, 8234>>, <<4202, 41072, 12987, 53688>>,
      <<6564, 49430, 47314, 53448>>, <<7735, 27656, 20801, 43859>>,
      <<10056, 30540, 57230, 60313>>, <<13488, 48309, 57755, 18600>>,
      <<14620, 3251, 50633, 23139>>, <<20184, 43594, 58177, 35531>>,
      <<23452, 51791, 30563, 58227>>, <<26670, 28659, 54962, 47267>>,
      <<29839, 33518, 24047, 45820>>, <<30885, 25455, 17175, 12128>>,
      <<33992, 30740, 41456, 43890>>, <<36039, 520, 6756, 14828>>,
      <<37054, 65530, 9059, 7720>>, <<42064, 27883, 56962, 48617>>,
      <<48889, 41975, 45766, 30997>>, <<50801, 30962, 58226, 21291>>,
      <<51751, 16078, 59942, 24988>>, <<53638, 47303, 8640, 49671>>,
      <<60122, 32214, 52704, 60190>>, <<62845, 20351, 61038, 53624>>,
      <<1776, 26538, 29207, 28602>>, <<2659, 32197, 41672, 39078>>,
      <<4415, 38916, 48889, 3502>>, <<7025, 2869, 4892, 18203>>,
      <<10459, 30709, 8964, 32132>>, <<13002, 43899, 16583, 9363>>,
      <<15518, 48650, 5577, 48828>>, <<17181, 26564, 39952, 3404>>,
      <<19653, 54462, 52030, 17078>>, <<22911, 10652, 64613, 32298>>,
      <<24523, 28587, 15062, 64236>>, <<27716, 6540, 19015, 22551>>>>

\* the schedule word that follows the 16 words w
sha512_schedule_word(w) ==
    w64_add4(w[1], sha512_small_sigma0(w[2]), w[10], sha512_small_sigma1(w[15]))

\* one round: s is <<a, b, c, d, e, f, g, h>>
sha512_round_from(s, t1, t2) ==
    <<w64_add(t1, t2), s[1], s[2], s[3], w64_add(s[4], t1), s[5], s[6], s[7]>>

sha512_round(s, wi, ki) ==
    sha512_round_from(s,
                      w64_add5(s[8], sha512_big_sigma1(s[5]), sha512_ch(s[5], s[6], s[7]),
                               wi, ki),
                      w64_add(sha512_big_sigma0(s[1]), sha512_maj(s[1], s[2], s[3])))

\* the end of all_rounds: the working variables are added to the state
sha512_feed_forward(state, s) ==
    <<w64_add(state[1], s[1]), w64_add(state[2], s[2]), w64_add(state[3], s[3]),
      w64_add(state[4], s[4]), w64_add(state[5], s[5]), w64_add(state[6], s[6]),
      w64_add(state[7], s[7]), w64_add(state[8], s[8])>>

-----------------------------------------------------------------------------
(* hash/sha512/core.rs                                                      *)

\* compress: the 16 words of the block
sha512_block_words(bytes) ==
    <<w64_from_be_bytes(bytes, 1), w64_from_be_bytes(bytes, 9),
      w64_from_be_bytes(bytes, 17), w64_from_be_bytes(bytes, 25),
      w64_from_be_bytes(bytes, 33), w64_from_be_bytes(bytes, 41),
      w64_from_be_bytes(bytes, 49), w64_from_be_bytes(bytes, 57),
      w64_from_be_bytes(bytes, 65), w64_from_be_bytes(bytes, 73),
      w64_from_be_bytes(bytes, 81), w64_from_be_bytes(bytes, 89),
      w64_from_be_bytes(bytes, 97), w64_from_be_bytes(bytes, 105),
      w64_from_be_bytes(bytes, 113), w64_from_be_bytes(bytes, 121)>>

\* sha512: bit_len.to_be_bytes(), the length in bits on 16 bytes
sha512_bit_len(len) ==
    <<0, 0, 0, 0, 0, 0, 0, 0, 0, 0, 0, 0,
      (len \div 2097152) % 256, (len \div 8192) % 256, (len \div 32) % 256,
      (len % 32) * 8>>

\* sha512: block = [0u8; 128], the part of it that stays zero
sha512_zeros(n) == [i \in 1..n |-> 0]

\* sha512: the last block or the last two, of the rem bytes left
sha512_padded(rest, bit_len) ==
    IF Len(rest) > 111
    THEN <<rest \o <<128>> \o sha512_zeros(127 - Len(rest)), sha512_zeros(112) \o bit_len>>
    ELSE <<rest \o <<128>> \o sha512_zeros(111 - Len(rest)) \o bit_len>>

\* sha512: the blocks compress is called with, in order
sha512_blocks(input) ==
    [k \in 1..(Len(input) \div 128) |-> SubSeq(input, (128 * (k - 1)) + 1, 128 * k)]
    \o sha512_padded(SubSeq(input, (128 * (Len(input) \div 128)) + 1, Len(input)),
                     sha512_bit_len(Len(input)))

\* sha512: let mut state = H512_INIT, and the first call of compress
sha512_begin(input) ==
    [blocks |-> sha512_blocks(input), i |-> 1, t |-> 0, state |-> H512_INIT,
     s |-> H512_INIT, w |-> sha512_block_words(sha512_blocks(input)[1])]

\* the call after its round t, the last of a block or not
sha512_next_block(h, state) ==
    [blocks |-> h.blocks, i |-> h.i + 1, t |-> 0, state |-> state, s |-> state,
     w |-> IF h.i < Len(h.blocks) THEN sha512_block_words(h.blocks[h.i + 1]) ELSE h.w]

sha512_next_round(h, s) ==
    IF h.t = 79 THEN sha512_next_block(h, sha512_feed_forward(h.state, s))
    ELSE [h EXCEPT !.t = h.t + 1, !.s = s,
                   !.w = Append(Tail(h.w), sha512_schedule_word(h.w))]

sha512_step(h) == sha512_next_round(h, sha512_round(h.s, h.w[1], K512[h.t + 1]))

\* every block is compressed
sha512_done(h) == h.i > Len(h.blocks)

\* sha512: the state written out, each word most significant byte first
sha512_serialize(state) ==
    w64_to_be_bytes(state[1]) \o w64_to_be_bytes(state[2]) \o w64_to_be_bytes(state[3])
    \o w64_to_be_bytes(state[4]) \o w64_to_be_bytes(state[5]) \o w64_to_be_bytes(state[6])
    \o w64_to_be_bytes(state[7]) \o w64_to_be_bytes(state[8])

-----------------------------------------------------------------------------
(* signatures/ed25519/scalar.rs: scalars as 32 bytes, the least significant *)
(* first.  reduce and from_mul_sum work on i64 limbs of 21 bits; an i64 is  *)
(* written as a pair <<h, l>> with 0 <= l < 2^21 that stands for            *)
(* h * 2^21 + l.  The limbs of scalar.rs stay far below 2^63, so no i64     *)
(* operation wraps.                                                         *)

i64(v) == <<v \div 2097152, v % 2097152>>

\* x + y
i64_add(x, y) == <<x[1] + y[1] + ((x[2] + y[2]) \div 2097152), (x[2] + y[2]) % 2097152>>

\* xl * yl for 0 <= xl, yl < 2^21, from products below 2^31
i64_mul_low(a, b, c, d) ==
    <<(a * c) + ((a * d) \div 1024) + ((b * c) \div 2048),
      (((a * d) % 1024) * 2048) + (((b * c) % 2048) * 1024) + (b * d)>>

\* x * y
i64_mul(x, y) ==
    i64_add(<<(x[1] * y[1] * 2097152) + (x[1] * y[2]) + (x[2] * y[1]), 0>>,
            i64_add(<<i64_mul_low(x[2] \div 2048, x[2] % 2048, y[2] \div 1024, y[2] % 1024)[1], 0>>,
                    i64(i64_mul_low(x[2] \div 2048, x[2] % 2048, y[2] \div 1024, y[2] % 1024)[2])))

\* the sum of xs[lo], ..., xs[hi]
RECURSIVE i64_sum(_, _, _)
i64_sum(xs, lo, hi) ==
    IF lo = hi THEN xs[lo]
    ELSE i64_add(i64_sum(xs, lo, (lo + hi) \div 2), i64_sum(xs, ((lo + hi) \div 2) + 1, hi))

\* (x >> n) as u8 for n <= 21, and (x << n) as u8
i64_shr_u8(x, n) == (((x[1] % 256) * (2 ^ (21 - n))) + (x[2] \div (2 ^ n))) % 256

i64_shl_u8(x, n) == ((x[2] % 256) * (2 ^ n)) % 256

\* field.rs load_3, and load_4(..) >> n for n >= 1, of the bytes from offset at
load_3(input, at) == input[at + 1] + (256 * input[at + 2]) + (65536 * input[at + 3])

load_4_shr(input, at, n) == (load_3(input, at) \div (2 ^ n)) + (input[at + 4] * (2 ^ (24 - n)))

\* Scalar::from_bytes and to_bytes: the 32 bytes themselves
Scalar_from_bytes(bytes) == bytes

Scalar_to_bytes(self) == self

\* reduce, from_mul_sum: the limbs of 21 bits of 21 bytes from an offset
scalar_limbs_8(b, at) ==
    <<i64(load_3(b, at) % 2097152), i64(load_4_shr(b, at + 2, 5) % 2097152),
      i64((load_3(b, at + 5) \div 4) % 2097152), i64(load_4_shr(b, at + 7, 7) % 2097152),
      i64(load_4_shr(b, at + 10, 4) % 2097152), i64((load_3(b, at + 13) \div 2) % 2097152),
      i64(load_4_shr(b, at + 15, 6) % 2097152), i64((load_3(b, at + 18) \div 8) % 2097152)>>

\* reduce: the 24 limbs of the 64 bytes, the last one not masked
reduce_limbs(wide) ==
    scalar_limbs_8(wide, 0) \o scalar_limbs_8(wide, 21)
    \o SubSeq(scalar_limbs_8(wide, 42), 1, 7) \o <<i64(load_4_shr(wide, 60, 3))>>

\* from_mul_sum: load_a, the 12 limbs of 32 bytes, the last one not masked
load_a(data) ==
    scalar_limbs_8(data, 0)
    \o SubSeq(scalar_limbs_8(data \o <<0, 0, 0, 0, 0, 0, 0, 0, 0, 0>>, 21), 1, 3)
    \o <<i64(load_4_shr(data, 28, 7))>>

\* coeffs: 2^252 is the sum of coeffs[j] * 2^(21 * j) modulo the group order
coeffs == <<i64(666643), i64(470296), i64(654183), i64(-997805), i64(136657), i64(-683901)>>

\* for index in (first..=first + 5).rev() { for j in 0..6 { s[index - 12 + j] += s[index] *
\* coeffs[j] } }: what limb k receives
scalar_folded_limb(s, first, k) ==
    i64_sum([j \in 0..6 |->
                 IF j = 0 THEN s[k + 1]
                 ELSE IF (k + 13 - j) \in first..(first + 5)
                      THEN i64_mul(s[k + 14 - j], coeffs[j])
                      ELSE i64(0)], 0, 6)

scalar_folded(s, first) ==
    IF Len(s) = 24
    THEN SubSeq([k \in 1..24 |-> IF (k - 1) \in (first - 12)..(first - 1)
                                 THEN scalar_folded_limb(s, first, k - 1) ELSE s[k]], 1, 24)
    ELSE s

\* carry = (s[index] + (1 << 20)) >> 21 and what it leaves in s[index]
i64_carry(x) == x[1] + ((x[2] + 1048576) \div 2097152)

i64_carried(x) == i64(((x[2] + 1048576) % 2097152) - 1048576)

\* for &index in indices { carry; s[index + 1] += carry; s[index] -= carry << 21 }, for
\* indices two apart
scalar_carried(s, indices) ==
    IF Len(s) = 24
    THEN SubSeq([k \in 1..24 |->
                     IF (k - 1) \in indices THEN i64_carried(s[k])
                     ELSE IF (k - 2) \in indices THEN i64_add(s[k], i64(i64_carry(s[k - 1])))
                     ELSE s[k]], 1, 24)
    ELSE s

\* carry = s[index] >> 21; s[index + 1] += carry; s[index] -= carry << 21
scalar_floor_step(s, i) ==
    [s EXCEPT ![i + 1] = <<0, s[i + 1][2]>>,
              ![i + 2] = i64_add(s[i + 2], i64(s[i + 1][1]))]

scalar_floored(s, last) == FoldStrict(scalar_floor_step, s, 0, last)

\* the 32 bytes of the limbs 0..11
scalar_result(s) ==
  IF Len(s) # 24 THEN s ELSE
    <<i64_shr_u8(s[1], 0), i64_shr_u8(s[1], 8),
      Or8(i64_shr_u8(s[1], 16), i64_shl_u8(s[2], 5)),
      i64_shr_u8(s[2], 3), i64_shr_u8(s[2], 11),
      Or8(i64_shr_u8(s[2], 19), i64_shl_u8(s[3], 2)),
      i64_shr_u8(s[3], 6),
      Or8(i64_shr_u8(s[3], 14), i64_shl_u8(s[4], 7)),
      i64_shr_u8(s[4], 1), i64_shr_u8(s[4], 9),
      Or8(i64_shr_u8(s[4], 17), i64_shl_u8(s[5], 4)),
      i64_shr_u8(s[5], 4), i64_shr_u8(s[5], 12),
      Or8(i64_shr_u8(s[5], 20), i64_shl_u8(s[6], 1)),
      i64_shr_u8(s[6], 7),
      Or8(i64_shr_u8(s[6], 15), i64_shl_u8(s[7], 6)),
      i64_shr_u8(s[7], 2), i64_shr_u8(s[7], 10),
      Or8(i64_shr_u8(s[7], 18), i64_shl_u8(s[8], 3)),
      i64_shr_u8(s[8], 5), i64_shr_u8(s[8], 13),
      i64_shr_u8(s[9], 0), i64_shr_u8(s[9], 8),
      Or8(i64_shr_u8(s[9], 16), i64_shl_u8(s[10], 5)),
      i64_shr_u8(s[10], 3), i64_shr_u8(s[10], 11),
      Or8(i64_shr_u8(s[10], 19), i64_shl_u8(s[11], 2)),
      i64_shr_u8(s[11], 6),
      Or8(i64_shr_u8(s[11], 14), i64_shl_u8(s[12], 7)),
      i64_shr_u8(s[12], 1), i64_shr_u8(s[12], 9), i64_shr_u8(s[12], 17)>>

\* reduce and from_mul_sum up to s[12] = 0 and the two carry passes that follow: the limbs
\* 12..23 are folded into the limbs 0..11
scalar_high_folded(s) ==
    scalar_carried(
        scalar_carried(
            [scalar_folded(
                 scalar_carried(scalar_carried(scalar_folded(s, 18), {6, 8, 10, 12, 14, 16}),
                                {7, 9, 11, 13, 15}), 12) EXCEPT ![13] = i64(0)],
            {0, 2, 4, 6, 8, 10}),
        {1, 3, 5, 7, 9, 11})

\* reduce: for (sx, coeff) in s.iter_mut().take(6).zip(coeffs.iter()) { *sx = s12 * coeff }
reduce_s12_set(s) ==
    IF Len(s) = 24
    THEN SubSeq([k \in 1..24 |-> IF k <= 6 THEN i64_mul(s[13], coeffs[k]) ELSE s[k]], 1, 24)
    ELSE s

\* from_mul_sum: for (sx, coeff) in s.iter_mut().take(6).zip(coeffs.iter()) { *sx += s12 *
\* coeff }
from_mul_sum_s12_added(s) ==
    IF Len(s) = 24
    THEN SubSeq([k \in 1..24 |-> IF k <= 6 THEN i64_add(s[k], i64_mul(s[13], coeffs[k]))
                                 ELSE s[k]], 1, 24)
    ELSE s

\* Scalar::reduce
Scalar_reduce(wide) ==
    scalar_result(
        scalar_floored(
            reduce_s12_set(
                scalar_floored([reduce_s12_set(scalar_high_folded(reduce_limbs(wide)))
                                    EXCEPT ![13] = i64(0)], 11)), 10))

\* from_mul_sum: s[index] for index in 0..23, and s[23] = 0
from_mul_sum_column(a, b, c, i) ==
    i64_sum([j \in 0..12 |->
                 IF j = 0 THEN (IF i < 12 THEN c[i + 1] ELSE i64(0))
                 ELSE IF (i - (j - 1)) \in 0..11
                      THEN i64_mul(a[j], b[(i - (j - 1)) + 1])
                      ELSE i64(0)], 0, 12)

from_mul_sum_columns(a, b, c) ==
    IF Len(a) = Len(b) /\ Len(b) = Len(c)
    THEN SubSeq([k \in 1..24 |-> IF k = 24 THEN i64(0)
                                 ELSE from_mul_sum_column(a, b, c, k - 1)], 1, 24)
    ELSE <<>>

\* Scalar::from_mul_sum: a * b + c
Scalar_from_mul_sum(a, b, c) ==
    scalar_result(
        scalar_floored(
            from_mul_sum_s12_added(
                scalar_floored(
                    [from_mul_sum_s12_added(
                         scalar_high_folded(
                             scalar_carried(
                                 scalar_carried(
                                     from_mul_sum_columns(load_a(a), load_a(b), load_a(c)),
                                     {0, 2, 4, 6, 8, 10, 12, 14, 16, 18, 20, 22}),
                                 {1, 3, 5, 7, 9, 11, 13, 15, 17, 19, 21})))
                         EXCEPT ![13] = i64(0)], 11)), 10))


\* Scalar::slide: the bits of the scalar, lowest first
slide_bits(bytes) ==
    SubSeq([k \in 1..256 |-> (bytes[((k - 1) \div 8) + 1] \div (2 ^ ((k - 1) % 8))) % 2], 1, 256)

\* for v in r.iter_mut().skip(k) { if *v == 0 { *v = 1; break } *v = 0 }: the ones from k are
\* cleared up to the first zero, which is set
slide_zeros(r, k) == { j \in k..255 : r[j + 1] = 0 }

slide_first_zero(r, k) ==
    IF slide_zeros(r, k) = {} THEN 256
    ELSE CHOOSE j \in slide_zeros(r, k) : \A i \in slide_zeros(r, k) : j <= i

slide_carry_to(r, k, zero) ==
    SubSeq([j \in 1..256 |-> IF j - 1 < k \/ j - 1 > zero THEN r[j]
                             ELSE IF j - 1 = zero THEN 1 ELSE 0], 1, 256)

\* a carry that sets the first zero and leaves the ones below it
slide_carry_keeping_ones(r, k) ==
    [r EXCEPT ![slide_first_zero(r, k) + 1] = 1]

slide_carry(r, k) == slide_carry_to(r, k, slide_first_zero(r, k))

\* the while loop of slide at position index, from offset b
RECURSIVE slide_window(_, _, _)
slide_window(r, i, b) ==
    IF b > 6 \/ i + b >= 256 THEN r
    ELSE IF r[i + b + 1] = 0 THEN slide_window(r, i, b + 1)
    ELSE IF r[i + 1] + (r[i + b + 1] * (2 ^ b)) <= 15
    THEN slide_window([r EXCEPT ![i + 1] = r[i + 1] + (r[i + b + 1] * (2 ^ b)),
                                ![i + b + 1] = 0], i, b + 1)
    ELSE IF r[i + 1] - (r[i + b + 1] * (2 ^ b)) >= -15
    THEN slide_window(slide_carry([r EXCEPT ![i + 1] =
                                       r[i + 1] - (r[i + b + 1] * (2 ^ b))],
                                  i + b), i, b + 1)
    ELSE r

slide_at(r, i) == IF r[i + 1] # 0 THEN slide_window(r, i, 1) ELSE r

\* Scalar::slide
slide(bytes) == FoldStrict(slide_at, slide_bits(bytes), 0, 255)

-----------------------------------------------------------------------------
(* signatures/ed25519/group.rs, the group module that keys/ed25519 uses:    *)
(* the points of the curve in the coordinates of the code, with the tables  *)
(* of table.rs.                                                             *)

\* table.rs: the curve constant d, 2 * d and a square root of -1
D ==
    <<2211, 1431, 2579, 1244, 1515, 2743, 472, 1044, 2637, 1792,
      2048, 3721, 1913, 1943, 1856, 2252, 3699, 1791, 3627, 1742, 515, 5>>

D2 ==
    <<345, 2863, 1062, 2489, 3030, 1390, 945, 2088, 1178, 3585,
      0, 3347, 3827, 3886, 3712, 408, 3303, 3583, 3158, 3485, 1030, 2>>

SQRTM1 ==
    <<176, 234, 1866, 434, 1262, 1932, 4068, 2770, 2054, 1073,
      1839, 3450, 3579, 2451, 3328, 692, 3851, 3101, 79, 584, 2947, 2>>

\* table.rs: BI[j + 1] is the multiple 2 * j + 1 of the base point
BI ==
  <<[yplusx |-> <<2949,2243,1781,2364,4028,402,3086,4024,3526,2354,719,1068,1085,2438,2888,624,2661,3403,2611,2515,1999,0>>,
      yminusx |-> <<318,1033,1495,912,3344,2873,190,3348,3845,921,2557,2208,2191,838,388,2652,615,3969,664,761,1277,4>>,
      xy2d |-> <<2664,1962,1415,288,3017,2538,2756,3274,2083,3486,3110,1432,3395,3261,2941,1441,1448,198,2207,1974,3857,6>>],
    [yplusx |-> <<1840,3817,2124,2826,3877,2218,1611,3720,1072,1448,514,1651,3841,41,2896,3089,2292,2063,2970,1249,2582,7>>,
      yminusx |-> <<613,4045,2212,510,1633,2005,442,3676,1021,3381,3387,3435,331,418,499,2067,2658,1469,1877,344,2745,2>>,
      xy2d |-> <<2185,3341,3853,2355,1198,1569,1498,451,802,2370,3160,3508,3314,1112,229,3351,1222,2971,3858,618,2600,5>>],
    [yplusx |-> <<2867,2651,1032,3012,530,42,3821,3189,2243,1284,1165,3780,2751,197,3051,3537,1771,3616,326,3279,2373,2>>,
      yminusx |-> <<1722,1149,932,2092,3985,2935,1833,1202,1233,1,2005,2568,2148,459,3313,3635,1523,437,1003,2023,1354,1>>,
      xy2d |-> <<645,680,385,3519,3259,4043,3537,3339,2055,224,3367,2674,3005,177,2919,2881,1690,955,2411,3046,938,4>>],
    [yplusx |-> <<959,1258,148,1485,2842,3366,3520,2873,1338,1795,2420,740,2132,2082,594,1819,638,969,2344,3750,1563,4>>,
      yminusx |-> <<433,802,2730,713,2671,2683,2595,955,339,2562,2668,707,537,1273,2678,2526,2016,1329,3374,3541,3438,1>>,
      xy2d |-> <<930,2955,2049,1756,387,2479,3748,83,3911,53,947,2783,2167,2981,3137,1321,167,249,3178,2993,2719,7>>],
    [yplusx |-> <<815,2694,2726,1656,2862,3161,3142,1307,3695,1289,1446,3931,1670,3228,563,3307,3929,3543,906,3795,1209,3>>,
      yminusx |-> <<100,2520,3587,535,878,2495,65,3922,438,2568,1176,2820,1886,142,3014,2412,3215,3529,506,1445,2496,4>>,
      xy2d |-> <<3867,1114,3984,3723,1716,752,2514,2673,1000,4088,1762,3313,980,665,1788,2735,2822,8,539,1824,961,7>>],
    [yplusx |-> <<2782,2050,1162,8,4031,626,46,35,3791,3487,1765,832,1904,1809,3716,275,4015,1752,596,2734,629,4>>,
      yminusx |-> <<840,2148,585,1456,351,2067,2179,1904,873,3435,1342,3769,2701,1366,117,2618,1919,3420,41,1432,2219,1>>,
      xy2d |-> <<2537,1544,1533,716,2091,2637,740,808,1185,491,515,2146,1306,2459,273,1091,2376,991,693,1362,3526,3>>],
    [yplusx |-> <<3949,7,674,3106,3952,3515,3294,2907,922,2123,1983,2976,2823,303,2574,1335,577,1135,3779,3454,847,2>>,
      yminusx |-> <<3987,2043,2866,19,111,1717,1903,2487,3017,4046,2222,1430,2733,810,690,2513,1191,1538,3351,2178,615,0>>,
      xy2d |-> <<888,746,2419,2577,864,1813,3540,3576,1713,894,804,3667,423,3977,3895,2606,2147,151,3498,2671,2427,4>>],
    [yplusx |-> <<2720,3326,787,3264,1230,1746,3108,393,653,1164,134,3405,498,4012,3517,731,1835,734,2033,657,482,6>>,
      yminusx |-> <<3851,2252,1606,3288,1035,3424,2320,681,2980,2089,723,1305,1970,128,2096,1872,3775,3333,536,3284,949,4>>,
      xy2d |-> <<1302,3339,3995,1890,3482,3813,4062,883,3918,906,235,1063,982,2009,3674,50,2114,3661,266,1554,285,5>>]>>

\* table.rs: BASE[pos + 1][j] is the multiple j * 256^pos of the base point
BASE ==
  <<<<[yplusx |-> <<2949,2243,1781,2364,4028,402,3086,4024,3526,2354,719,1068,1085,2438,2888,624,2661,3403,2611,2515,1999,0>>,
      yminusx |-> <<318,1033,1495,912,3344,2873,190,3348,3845,921,2557,2208,2191,838,388,2652,615,3969,664,761,1277,4>>,
      xy2d |-> <<2664,1962,1415,288,3017,2538,2756,3274,2083,3486,3110,1432,3395,3261,2941,1441,1448,198,2207,1974,3857,6>>],
    [yplusx |-> <<471,967,3219,3711,548,2905,4085,1952,3478,1129,671,112,470,1630,1690,1450,3630,2002,4008,99,2316,5>>,
      yminusx |-> <<1448,2893,66,2646,2713,3944,172,1254,268,696,2703,890,366,1723,3619,3593,1365,3218,1641,2394,2997,6>>,
      xy2d |-> <<2655,2487,933,2699,1018,1924,2767,1497,3037,3094,310,1699,2877,2112,4000,1280,2931,2640,318,3931,26,7>>],
    [yplusx |-> <<1840,3817,2124,2826,3877,2218,1611,3720,1072,1448,514,1651,3841,41,2896,3089,2292,2063,2970,1249,2582,7>>,
      yminusx |-> <<613,4045,2212,510,1633,2005,442,3676,1021,3381,3387,3435,331,418,499,2067,2658,1469,1877,344,2745,2>>,
      xy2d |-> <<2185,3341,3853,2355,1198,1569,1498,451,802,2370,3160,3508,3314,1112,229,3351,1222,2971,3858,618,2600,5>>],
    [yplusx |-> <<2463,4032,2446,1307,2163,898,3365,2015,1780,1628,1383,2342,2826,991,1165,3235,1831,3672,801,2320,2062,6>>,
      yminusx |-> <<2239,1665,2565,80,1534,2713,250,1382,2417,2024,818,1287,1696,3280,2275,3134,1178,1114,3188,1012,1939,2>>,
      xy2d |-> <<3849,1903,2500,4030,2579,1829,3265,1973,2373,2531,1134,1097,43,3985,3036,1501,3627,1363,3939,203,3997,7>>],
    [yplusx |-> <<2867,2651,1032,3012,530,42,3821,3189,2243,1284,1165,3780,2751,197,3051,3537,1771,3616,326,3279,2373,2>>,
      yminusx |-> <<1722,1149,932,2092,3985,2935,1833,1202,1233,1,2005,2568,2148,459,3313,3635,1523,437,1003,2023,1354,1>>,
      xy2d |-> <<645,680,385,3519,3259,4043,3537,3339,2055,224,3367,2674,3005,177,2919,2881,1690,955,2411,3046,938,4>>],
    [yplusx |-> <<305,343,2935,3822,2572,2179,2223,12,1417,625,1691,2675,2649,1677,1462,2054,2237,3267,1698,1979,485,5>>,
      yminusx |-> <<3236,2008,1659,107,2456,916,551,637,644,1470,2391,1339,69,3698,2140,2992,2180,1047,430,1220,2230,3>>,
      xy2d |-> <<2929,3748,1794,806,1452,24,443,1050,3,1806,1214,3092,2107,1200,1186,1342,483,214,2719,3729,184,1>>],
    [yplusx |-> <<959,1258,148,1485,2842,3366,3520,2873,1338,1795,2420,740,2132,2082,594,1819,638,969,2344,3750,1563,4>>,
      yminusx |-> <<433,802,2730,713,2671,2683,2595,955,339,2562,2668,707,537,1273,2678,2526,2016,1329,3374,3541,3438,1>>,
      xy2d |-> <<930,2955,2049,1756,387,2479,3748,83,3911,53,947,2783,2167,2981,3137,1321,167,249,3178,2993,2719,7>>],
    [yplusx |-> <<3727,3539,1540,1430,2487,709,2160,3624,887,2864,876,3122,3801,1637,924,2835,1327,3022,97,3702,2325,0>>,
      yminusx |-> <<1241,2339,3571,1502,679,3998,1368,3611,1664,983,2966,575,3644,2758,1857,706,451,224,306,586,2704,3>>,
      xy2d |-> <<282,2601,2505,3933,1985,3454,3239,2236,376,2615,696,675,3766,400,1042,1590,3733,3268,3118,1989,1680,2>>]>>,
    <<[yplusx |-> <<3101,761,3683,3536,3788,338,2353,1896,1686,3339,2129,1957,2147,1722,4023,1325,3897,238,2464,2004,3539,6>>,
      yminusx |-> <<350,2725,1097,1589,3419,942,1666,188,1183,1628,1192,3356,2882,3733,3103,2128,1465,3377,3843,1750,215,3>>,
      xy2d |-> <<1223,110,1825,1089,3140,1686,3455,2344,1664,1341,1787,1010,2381,2630,926,2887,2992,2148,302,2417,198,1>>],
    [yplusx |-> <<2053,1420,131,682,3238,1136,66,1954,2787,980,3178,3805,2833,2659,1235,1862,1775,128,3925,2490,959,0>>,
      yminusx |-> <<4062,3045,1917,3138,1171,2598,3454,410,4013,1492,38,1113,1584,3204,223,224,3593,1647,3053,458,1510,2>>,
      xy2d |-> <<1540,1414,2252,3602,3859,2019,2420,2885,1004,1415,1391,1679,3090,3804,1597,2571,556,2158,837,1926,1645,5>>],
    [yplusx |-> <<4048,1442,1478,1064,261,3130,1639,3889,298,1601,2156,3813,794,1031,2786,1664,554,2363,839,2655,1275,1>>,
      yminusx |-> <<2100,3088,3996,2633,1591,1297,3012,2697,1749,2277,3004,3373,3967,247,1516,459,1497,3267,2654,1468,919,3>>,
      xy2d |-> <<2004,2143,1641,1121,3287,1395,2048,3228,3716,997,3673,305,2913,2919,1010,764,620,4037,2691,2510,1154,1>>],
    [yplusx |-> <<3256,1822,3918,178,487,3634,1143,1034,3513,1389,230,1272,3613,3308,1366,3062,2942,1495,1107,956,1532,0>>,
      yminusx |-> <<1474,3545,1175,1976,3907,2687,3765,2724,3632,1860,2924,3720,3205,1555,3165,2528,371,1880,3679,3185,4057,2>>,
      xy2d |-> <<3805,2813,3666,2874,1208,3314,2864,3795,908,2390,1332,2073,2494,2106,1212,826,3844,1617,1884,1652,1847,3>>],
    [yplusx |-> <<1424,582,2836,2396,832,854,341,364,1088,289,239,3014,2320,200,2068,2531,3212,2311,1840,2309,3061,6>>,
      yminusx |-> <<3545,3354,3392,2463,4026,626,1232,2415,1647,113,3763,954,1520,1313,1008,1078,2457,399,3131,2646,4030,1>>,
      xy2d |-> <<2954,1045,481,1935,4007,2016,935,2988,4087,1033,6,2469,2722,2953,727,1781,2646,1589,1658,463,594,0>>],
    [yplusx |-> <<3812,757,119,1650,276,3307,1946,2400,1201,3977,2792,2084,172,1232,2082,1199,3268,3286,2551,1341,23,0>>,
      yminusx |-> <<660,2517,2826,3808,319,1637,3930,253,1884,2446,3727,124,4065,2187,390,3398,3309,898,3697,167,4000,3>>,
      xy2d |-> <<2868,989,3478,562,3177,1411,1848,2889,2010,3560,1309,3880,145,3994,2001,2733,3510,1166,4000,4066,693,1>>],
    [yplusx |-> <<3730,1777,1709,1986,3883,317,2953,1284,803,1645,843,2236,1308,3079,157,2244,1976,2412,519,2364,3966,6>>,
      yminusx |-> <<845,4046,1174,4028,496,3799,859,2783,619,2968,371,3158,3880,1567,1138,3360,111,2834,2415,1903,1179,7>>,
      xy2d |-> <<3589,2666,1198,3936,3930,2449,1180,3054,497,565,1729,1718,3839,2910,2056,1562,337,3586,3841,3088,4046,0>>],
    [yplusx |-> <<3653,580,3524,3369,3570,163,2270,2365,3700,32,3371,532,524,2024,2054,1740,2314,3755,1647,1937,311,4>>,
      yminusx |-> <<3652,4065,1609,1418,1101,2022,3447,794,3746,4042,545,3341,2175,1448,1052,36,499,3153,387,2727,2305,4>>,
      xy2d |-> <<2288,431,1164,2933,2225,2880,665,582,2684,247,2510,3475,3590,3985,176,3958,531,1745,2930,2183,443,4>>]>>,
    <<[yplusx |-> <<430,1641,2428,1221,3619,3207,1460,168,3389,2185,1892,4014,1354,195,713,3502,3613,1705,1804,480,2695,0>>,
      yminusx |-> <<1726,1076,1140,2004,232,596,1323,347,2772,1165,3613,1539,315,394,2698,1987,3575,3291,303,652,3767,4>>,
      xy2d |-> <<2441,3016,2379,2905,769,1539,3394,1469,3642,1722,3187,2531,2517,3617,429,214,1124,2141,3878,768,3815,3>>],
    [yplusx |-> <<1304,487,1924,1940,1018,3444,3142,1593,2649,3183,1253,695,773,478,1630,2576,48,2953,719,3178,3399,7>>,
      yminusx |-> <<1719,2013,1182,1374,1490,2767,2846,1552,348,353,2688,2172,737,1497,2455,969,1474,2322,663,1398,897,1>>,
      xy2d |-> <<1760,3853,1166,3329,4058,963,1135,2325,1178,999,1949,2069,1723,258,3170,1822,3200,3230,3380,3928,1164,1>>],
    [yplusx |-> <<1389,3655,3482,759,599,2046,840,2191,1467,3124,3414,2696,2400,1750,267,2557,441,2794,3406,3770,1935,2>>,
      yminusx |-> <<39,847,1657,2351,1700,2708,1034,3944,1214,2456,1094,389,2401,680,444,1482,3028,1499,3773,4001,4082,3>>,
      xy2d |-> <<2406,2355,3980,1665,426,2443,2316,514,1180,537,652,965,413,2322,338,913,1915,2502,766,3536,260,4>>],
    [yplusx |-> <<2744,150,1755,1248,289,856,1103,206,1737,2699,1313,687,158,676,1217,1618,1153,4042,1166,2906,357,0>>,
      yminusx |-> <<554,580,3601,3061,690,2903,826,2442,3123,4000,1697,2918,2642,31,2913,2380,981,2805,175,944,3206,2>>,
      xy2d |-> <<2678,2118,1184,2631,400,3087,3964,3282,2436,3839,3858,696,2218,101,3625,1685,2232,4076,2495,1661,2331,5>>],
    [yplusx |-> <<1373,395,415,2871,2489,489,3172,2584,1530,1630,3556,94,671,876,2065,1552,651,769,1648,1272,2203,4>>,
      yminusx |-> <<3066,2889,3200,209,303,2211,1004,2751,350,1941,2137,456,3824,3081,51,1831,3019,2295,1994,748,3552,3>>,
      xy2d |-> <<751,3769,3386,258,562,1565,1704,1553,948,1573,1249,2722,2315,3697,3755,983,3775,1739,2633,4027,2549,4>>],
    [yplusx |-> <<1838,2501,3102,1576,1373,1041,2119,3160,1708,1240,2954,1598,343,3941,850,2330,347,1653,648,2668,1697,0>>,
      yminusx |-> <<4052,1468,138,2465,148,3763,1139,3014,3440,1037,3292,209,124,3091,660,2348,3700,4006,3531,2694,1540,5>>,
      xy2d |-> <<1206,374,1148,3357,648,1303,395,3588,320,1345,370,3949,2220,1537,794,2544,710,628,2558,2536,152,2>>],
    [yplusx |-> <<3118,3758,2949,632,1652,3569,2859,1964,3079,541,2646,3909,459,358,2636,1600,1491,89,247,2453,779,7>>,
      yminusx |-> <<3199,732,3386,1919,2455,2340,4056,2644,3116,2135,50,3642,519,1613,2520,2599,3625,2663,3340,3793,1027,0>>,
      xy2d |-> <<1362,1260,1415,723,2379,2268,1135,2434,2255,3692,3781,860,1728,4001,2886,3964,3532,771,776,1108,3031,5>>],
    [yplusx |-> <<2346,3703,277,2354,1476,3224,3549,3036,2466,1224,710,3446,3491,2698,3645,2513,2092,1663,560,3505,2999,5>>,
      yminusx |-> <<3266,2852,1320,3353,3994,2071,1473,1587,1125,1717,1663,1827,4032,1764,2230,1643,3459,2058,115,1920,826,1>>,
      xy2d |-> <<702,3238,1990,3910,2401,3808,2386,529,470,3778,4,1143,3029,1913,864,386,210,3854,3416,3238,1037,7>>]>>,
    <<[yplusx |-> <<828,1924,1796,2245,794,2514,323,3112,1806,2898,4023,121,985,3758,2713,3514,985,688,1388,3922,3075,2>>,
      yminusx |-> <<3662,3324,1874,3808,3912,2941,3080,110,2803,4095,1219,1436,2388,683,267,87,909,1002,2710,607,1565,1>>,
      xy2d |-> <<1149,1338,1403,391,2319,1943,3160,3312,304,1968,2352,3967,1406,1906,61,793,2991,2411,3517,1675,2452,6>>],
    [yplusx |-> <<2376,2705,1642,990,2269,3277,210,764,1218,1286,3912,3746,1277,1635,2084,2484,3642,1186,3692,452,2366,2>>,
      yminusx |-> <<3791,3503,1780,756,3359,3963,4054,2631,276,3824,3964,2871,2631,3492,4093,3377,1925,2309,1139,410,594,5>>,
      xy2d |-> <<737,1297,2962,308,1902,2563,349,3530,2229,887,368,785,1564,2804,1417,2820,2083,50,1151,1476,2912,5>>],
    [yplusx |-> <<76,3711,1776,4076,3049,1571,841,1886,1950,1701,2694,3681,3613,353,751,1364,3541,1451,1228,4079,3858,2>>,
      yminusx |-> <<3209,3143,2336,2053,2405,3275,2959,2339,12,3841,2023,3831,738,1616,293,0,1006,2795,3752,1756,1191,2>>,
      xy2d |-> <<1856,3084,735,555,2629,112,2468,1036,3711,3334,2064,3942,2255,1047,3860,3180,1936,2627,1304,1970,3680,5>>],
    [yplusx |-> <<3860,2412,3237,1073,44,10,996,2797,3392,3138,3043,621,3599,2050,1318,3364,104,1111,926,817,31,2>>,
      yminusx |-> <<2072,3569,3948,472,2227,2597,600,3126,1871,3322,3637,470,1766,1270,1023,3611,1527,3293,2924,2762,103,5>>,
      xy2d |-> <<3409,57,2824,2038,3410,111,3072,23,2404,2836,2072,2634,3621,2818,526,3410,885,1120,2146,2984,2428,3>>],
    [yplusx |-> <<2535,311,3016,3135,2069,3863,298,3550,1056,1561,1446,4061,1448,3976,2496,4090,594,3612,705,1026,1819,7>>,
      yminusx |-> <<2482,1429,1008,777,193,1891,2425,3738,397,938,1762,1506,541,2327,4052,546,3130,1766,118,3378,825,2>>,
      xy2d |-> <<4007,930,1617,3480,2173,141,1231,3997,2929,2761,1013,2107,3746,433,3011,3334,2678,2417,537,393,794,3>>],
    [yplusx |-> <<687,1879,2717,755,1617,2530,1866,1664,648,3262,1115,3964,384,3089,3521,2126,1659,1178,4086,1561,2761,1>>,
      yminusx |-> <<198,1272,1531,1780,1302,3327,1909,1564,2014,876,3228,3473,65,441,1256,3645,3617,3039,2947,1990,278,3>>,
      xy2d |-> <<104,1201,594,900,555,2175,3305,3817,1083,1667,2128,1292,2658,2116,3441,4041,273,139,1055,867,292,6>>],
    [yplusx |-> <<1592,722,794,1182,2915,856,1021,2493,1792,3579,1181,1722,928,2954,3057,2040,1093,3472,376,2723,1314,1>>,
      yminusx |-> <<2445,1256,2951,1053,2461,525,2012,1728,1521,4074,3081,2491,15,1661,3372,1939,3904,1519,158,3619,1771,4>>,
      xy2d |-> <<2360,1556,873,757,3128,258,3437,2930,154,4068,2010,3874,1606,2331,2099,3724,108,579,1285,1807,1534,4>>],
    [yplusx |-> <<1169,2385,200,1170,754,2598,780,1014,1992,3840,2053,3403,1481,3375,2885,1787,581,1954,3509,2550,1633,1>>,
      yminusx |-> <<2956,192,1686,1882,2632,525,3631,3824,118,1677,1115,2301,3339,3315,2897,127,724,3641,928,354,653,4>>,
      xy2d |-> <<2301,2608,1025,1188,2127,2752,1482,1898,2499,545,3496,3015,977,1124,2270,3563,2246,3027,3424,1426,3457,1>>]>>,
    <<[yplusx |-> <<1512,2140,3963,2921,1893,2856,2234,3350,1931,3846,2927,249,3379,1985,231,935,3708,2808,432,1749,2655,3>>,
      yminusx |-> <<3167,218,1702,2165,310,1398,3036,3770,3946,3586,3351,247,3278,724,2367,2033,3312,3789,1929,1191,35,2>>,
      xy2d |-> <<594,1931,1649,219,1746,1543,3793,3409,1273,451,7,279,996,523,2634,3938,870,4094,1340,2083,3286,7>>],
    [yplusx |-> <<1267,2767,104,3286,1637,3386,2019,973,3352,3474,2370,605,864,2515,2360,1397,2303,717,2859,595,3824,3>>,
      yminusx |-> <<2742,2175,3032,2629,3041,1760,59,2980,2610,2118,42,1536,2414,302,528,3481,2371,3520,1595,3208,2104,2>>,
      xy2d |-> <<48,1125,3914,2828,363,2749,1399,348,2881,1174,3578,1049,1195,2223,4014,2092,2066,2690,1542,2954,476,2>>],
    [yplusx |-> <<442,1907,2750,15,2701,2201,3608,1577,126,54,3970,3479,1011,884,3074,2860,1931,1782,3948,219,3460,5>>,
      yminusx |-> <<4040,2521,1676,68,3168,3253,2723,3394,2414,1024,3109,761,750,1217,2893,293,3499,2609,404,3336,3011,0>>,
      xy2d |-> <<395,2558,3376,896,110,3191,357,2974,3494,2818,2926,522,3502,2455,3002,1403,1757,3097,810,1890,2626,3>>],
    [yplusx |-> <<3787,1095,731,3095,3064,3027,2093,3170,1055,3324,3679,351,1450,3079,3327,2058,2553,3610,2084,3230,1904,0>>,
      yminusx |-> <<1274,1800,3210,1074,2882,1108,2533,3579,2531,2209,3465,3653,3160,537,3840,3049,3025,1758,3745,1916,4081,1>>,
      xy2d |-> <<1533,2907,2629,3481,3937,588,2681,435,1257,152,2438,1000,62,403,9,3699,2846,1280,3393,1615,2546,3>>],
    [yplusx |-> <<3041,151,3070,1194,411,669,25,3582,3297,1759,4004,3871,3238,2370,2312,3132,334,863,1836,530,1478,6>>,
      yminusx |-> <<668,3710,2011,833,1965,2506,3091,697,1898,2371,2493,1978,857,2281,2331,2574,2112,2185,1128,3443,1810,1>>,
      xy2d |-> <<989,793,2254,2207,1835,3006,1472,2578,854,259,845,4072,3612,978,2473,65,626,2510,2737,2048,761,2>>],
    [yplusx |-> <<3500,1775,3482,2557,514,1044,1353,842,3774,300,3001,3895,1981,2968,3940,1600,2740,2444,901,2637,369,4>>,
      yminusx |-> <<2251,2543,2622,872,90,342,71,2645,34,3740,4067,584,3876,2821,3400,1363,1765,1890,3428,364,1012,1>>,
      xy2d |-> <<3212,3220,2713,1418,2599,127,184,2816,3951,6,547,1337,3546,3546,657,4029,427,1213,2647,335,130,5>>],
    [yplusx |-> <<982,3328,2899,347,1562,1620,969,3023,2184,258,2738,933,3176,1878,1398,636,1095,1739,1224,1418,2679,3>>,
      yminusx |-> <<3659,3439,1342,1681,514,3148,3447,1297,1849,1446,1190,2809,3092,1122,3622,3261,1867,2746,3183,1550,761,2>>,
      xy2d |-> <<118,2789,1683,287,1153,2661,3412,479,479,2786,1309,1510,785,2319,1164,290,1172,3711,3981,3349,3487,5>>],
    [yplusx |-> <<542,3445,2798,1234,3876,339,3734,1074,40,937,1166,365,3740,1906,1210,3606,2264,3769,2631,2175,3009,3>>,
      yminusx |-> <<639,1591,877,141,788,816,1973,3452,2799,889,2922,3620,3246,3164,399,2718,3795,2299,335,857,815,3>>,
      xy2d |-> <<524,2156,1514,17,3399,598,1745,1732,1995,2219,2201,24,2662,2899,2098,3447,2563,1787,3728,2076,1293,4>>]>>,
    <<[yplusx |-> <<1087,2791,1564,3465,116,3805,3171,3809,2293,1745,2552,3794,2036,1470,3525,2427,264,939,2406,3367,3258,4>>,
      yminusx |-> <<629,517,422,2922,3707,2102,3214,1043,471,1266,682,1483,2191,1374,1745,1781,3041,837,2982,1492,3554,2>>,
      xy2d |-> <<4045,3441,1184,2306,209,3976,2186,4018,522,604,2501,1601,3898,1205,919,2842,563,7,4066,3022,3455,7>>],
    [yplusx |-> <<148,3113,1523,1500,3452,2748,261,681,666,2074,2247,773,540,868,1565,2060,1239,3469,1756,3353,3996,4>>,
      yminusx |-> <<2049,1714,2598,486,2799,367,927,3415,2244,1734,3206,1890,2819,3009,2607,3944,2701,2933,3719,1077,2421,5>>,
      xy2d |-> <<1896,1971,2154,2429,2450,1585,378,429,2084,3333,2000,193,3100,2773,668,2976,775,1952,1080,3336,3277,7>>],
    [yplusx |-> <<3219,1548,2151,2113,2828,2457,810,427,122,2784,2253,3489,523,2150,3564,2696,2628,2316,1153,3240,1427,3>>,
      yminusx |-> <<1047,608,3181,1058,3238,3037,576,2376,3408,339,1966,3175,2920,2895,193,2716,3923,3340,3425,3342,651,4>>,
      xy2d |-> <<2727,2121,2654,393,531,3289,2298,1629,821,3468,468,3005,1021,1461,596,2245,998,726,2266,2096,1849,2>>],
    [yplusx |-> <<1107,1794,3082,228,2465,3563,3355,3415,2150,2597,1807,3503,3367,2908,2521,4091,1021,707,1353,660,1836,5>>,
      yminusx |-> <<1043,1517,2115,2258,707,3220,2252,807,864,1295,4029,62,2522,423,1963,2992,853,2243,3774,2426,1685,2>>,
      xy2d |-> <<190,3283,1494,3188,1919,4028,2734,3643,2259,3582,3300,3488,2653,778,3208,2594,2688,1468,2240,1353,3992,7>>],
    [yplusx |-> <<867,3062,527,341,854,2669,3579,3316,2629,69,520,2572,1855,3016,591,3820,743,2481,3286,1619,242,3>>,
      yminusx |-> <<279,190,2207,3304,2121,2179,1186,1973,3355,90,3200,2337,1020,2546,963,986,772,799,1802,3780,1730,7>>,
      xy2d |-> <<3205,3088,2218,3219,2568,3256,1899,3506,2912,377,70,2759,3695,480,192,2706,986,1607,345,1855,3858,2>>],
    [yplusx |-> <<3008,2672,1877,2237,72,3699,1090,3869,1444,3435,518,1558,3161,2539,422,3757,1924,3167,2029,409,2220,3>>,
      yminusx |-> <<3601,3585,3210,4039,1849,2548,2731,1190,1168,1319,3837,2290,1906,2088,2442,1053,2546,1462,2776,1394,3486,5>>,
      xy2d |-> <<315,1307,1959,2897,1638,2240,2949,2025,1670,2000,2420,3556,1357,276,3264,2762,1692,3742,3263,3289,735,2>>],
    [yplusx |-> <<161,958,1040,1435,1772,1685,2553,3365,2796,3643,558,3283,1013,2369,3250,1943,1138,3294,2084,2167,4073,0>>,
      yminusx |-> <<3289,208,195,3374,3547,824,2883,2763,1631,2278,4013,2401,554,2243,2853,2294,455,1164,84,364,2857,6>>,
      xy2d |-> <<315,2985,266,845,3803,231,3500,742,3458,2620,1358,3969,1400,4086,2109,1632,2583,3840,127,1011,3120,4>>],
    [yplusx |-> <<1280,3476,2061,53,2556,2354,3052,1787,2724,3367,2284,2687,738,1532,2581,304,469,106,2743,337,363,4>>,
      yminusx |-> <<3205,2856,1559,957,778,3757,1851,919,1975,3383,4037,1483,3690,2241,1767,3180,1988,683,1931,2959,3425,0>>,
      xy2d |-> <<1712,3091,4073,3454,1704,517,1099,1422,1485,126,3005,3594,2903,3489,1583,2814,2258,1918,1858,687,2330,1>>]>>,
    <<[yplusx |-> <<3835,1120,847,692,4070,3433,1543,2659,980,3376,1246,3490,1952,235,545,3845,2963,1349,3584,2011,894,2>>,
      yminusx |-> <<1073,961,3013,3956,3606,3564,749,519,1486,2418,1835,1006,1458,1787,2499,2955,2312,1484,1291,228,3630,7>>,
      xy2d |-> <<1072,27,3431,1886,309,256,3069,2544,1254,265,547,2034,996,344,527,1875,1507,277,2481,2665,431,7>>],
    [yplusx |-> <<214,949,3143,961,2626,270,2287,947,2591,3719,1361,3049,713,1531,1215,2488,2588,3977,3192,507,115,0>>,
      yminusx |-> <<1565,1339,2873,1785,1486,3686,321,2810,2538,1411,3782,1439,2551,4058,863,244,654,2844,2498,1070,529,0>>,
      xy2d |-> <<2176,3969,2120,3185,1072,414,3777,1516,3106,2400,959,350,3002,2102,2784,2925,2056,3605,839,1779,3149,4>>],
    [yplusx |-> <<2416,2289,3224,3551,3852,434,2549,2827,551,2326,3691,1899,1937,3143,1974,1772,4008,2297,168,2384,2239,3>>,
      yminusx |-> <<4041,2001,4033,3788,2295,321,60,1300,1446,1887,3948,205,2030,703,3697,3517,2594,3655,2727,3546,2367,1>>,
      xy2d |-> <<1903,3720,3127,3219,4050,705,326,397,3674,3937,1698,295,2340,2083,245,1288,2409,212,3775,2969,2671,6>>],
    [yplusx |-> <<966,3650,1462,555,3761,2286,1791,3880,16,2519,3219,1496,3535,2097,2346,2314,2832,3166,3906,3497,879,1>>,
      yminusx |-> <<1515,133,2902,3099,2630,2518,1008,3977,2872,363,292,2764,3953,888,3345,3441,1770,393,1187,1681,1527,7>>,
      xy2d |-> <<3537,91,419,3579,2380,143,2092,2559,2973,868,2575,1416,955,2652,2008,680,3258,3725,267,2101,545,0>>],
    [yplusx |-> <<2687,775,323,1808,3418,1529,3492,3143,3742,1597,944,1965,3730,1323,3070,555,620,1028,509,3140,903,1>>,
      yminusx |-> <<3348,2770,2142,1635,2807,772,3160,3239,2176,2285,3488,483,33,3681,934,209,3075,2054,379,462,2567,6>>,
      xy2d |-> <<2808,2424,391,3133,1491,315,3652,2032,2621,693,114,1994,2887,1163,2888,215,3218,493,2735,2854,369,3>>],
    [yplusx |-> <<2001,2212,2226,2941,1549,3866,164,375,1238,3057,2214,3029,989,2357,504,3402,1001,1060,820,1190,3153,6>>,
      yminusx |-> <<3240,1380,151,793,2351,410,1505,551,2124,1979,255,1301,1159,890,1534,1269,858,3848,1852,3400,543,2>>,
      xy2d |-> <<833,342,3898,516,802,722,2563,2976,233,1854,3835,48,271,1220,221,4046,2730,2340,1787,2649,2266,4>>],
    [yplusx |-> <<1939,1225,3528,469,1270,97,386,3828,2531,1055,3225,1914,1122,2291,1464,3295,2473,2215,2574,895,2248,5>>,
      yminusx |-> <<3271,2649,1628,2278,3786,2566,2220,739,1355,1138,3752,380,542,141,4039,794,2807,3460,3274,3439,1901,6>>,
      xy2d |-> <<88,4041,1430,1672,3321,432,1696,1973,3059,3531,2589,3430,2357,2004,743,3532,3850,2647,710,1855,3151,1>>],
    [yplusx |-> <<1156,1987,3836,1798,878,1563,463,3132,2484,3580,1395,3198,2076,3223,3449,3761,1884,2806,2941,2477,69,7>>,
      yminusx |-> <<187,1530,3376,1275,3706,2768,1635,1356,3296,2516,2178,900,4067,2098,451,3906,3138,3940,3355,3200,2394,7>>,
      xy2d |-> <<2995,2882,2449,3508,2961,3233,732,1200,1571,617,3159,1933,3980,3665,3998,2557,4051,3617,1164,1576,4065,5>>]>>,
    <<[yplusx |-> <<520,1995,3421,2130,2169,3698,3570,1671,3440,3565,440,1929,360,2738,3071,3520,2613,2010,871,3076,2884,2>>,
      yminusx |-> <<1562,2377,4065,532,3673,1268,461,215,3527,3047,3401,3874,2896,3363,207,2352,562,2327,1788,3396,1929,4>>,
      xy2d |-> <<1934,1259,2823,2170,2588,1649,2804,2461,398,3181,2042,2310,2127,3284,3259,1002,1252,2970,3883,750,197,6>>],
    [yplusx |-> <<3345,2790,636,3164,43,2743,1164,1354,2459,3190,580,747,2633,1387,3136,3835,1901,2918,2265,1828,215,7>>,
      yminusx |-> <<3057,4056,3131,2203,2909,416,853,3231,567,1721,1456,655,1328,2829,3094,228,2731,3324,300,2499,188,1>>,
      xy2d |-> <<91,3114,2878,3716,2698,3594,1921,3793,3828,1689,408,2141,142,3655,1299,1940,1043,1903,937,1469,885,6>>],
    [yplusx |-> <<3255,3866,2199,257,3527,3459,1467,3094,3422,3495,3933,32,4001,2496,3675,1288,2646,3154,1847,1873,1891,2>>,
      yminusx |-> <<2131,3344,3626,2563,1375,1691,1589,2542,1424,1783,53,2953,3689,4059,2545,2559,3972,3094,1163,3100,3468,0>>,
      xy2d |-> <<2473,2881,878,45,660,2640,1120,1915,3710,2884,1776,1173,1084,781,2146,3322,1767,3350,2682,3544,194,7>>],
    [yplusx |-> <<3603,3799,3512,2407,468,1961,1665,3447,3850,594,1140,598,3461,3584,2434,3648,3301,2643,2070,1555,696,3>>,
      yminusx |-> <<3086,1790,159,2373,1377,2262,1617,1132,3753,743,3310,2485,2016,3894,961,2419,1173,2376,867,2758,3599,2>>,
      xy2d |-> <<3428,1164,3812,3963,2535,3335,2182,135,2663,3203,3690,3506,228,3482,4052,3977,3905,1444,3187,533,377,4>>],
    [yplusx |-> <<3380,1724,2344,827,1198,3534,3542,1369,3766,3831,4023,2273,979,507,2836,632,646,1052,1570,2134,506,3>>,
      yminusx |-> <<3370,3534,2007,2382,3184,1800,924,1149,2755,4024,663,3472,2310,826,3040,3603,3446,3481,780,1098,3,7>>,
      xy2d |-> <<756,866,558,1732,3970,730,848,2435,2439,514,961,2322,2872,3602,439,2492,1161,2386,681,561,1211,2>>],
    [yplusx |-> <<3179,3973,2805,194,504,2372,2663,79,1219,1832,3432,442,954,2458,1503,2196,3350,3765,2559,687,3357,0>>,
      yminusx |-> <<1987,3558,1842,3793,424,1163,2889,1121,1048,2889,572,3021,1743,1079,3395,2283,8,392,1822,1000,4078,0>>,
      xy2d |-> <<3807,1569,306,2218,2522,1946,613,1426,673,2946,816,3097,1946,1978,1049,1024,3446,1329,1816,3449,1708,1>>],
    [yplusx |-> <<1709,2171,1400,3180,2393,2988,254,1529,3757,3609,1172,3920,834,1578,590,366,1792,353,2840,3380,1614,1>>,
      yminusx |-> <<3389,2481,3885,1834,735,1447,548,2627,2614,1122,1891,2403,1715,1937,3744,1004,777,770,1721,239,574,1>>,
      xy2d |-> <<1690,766,3097,3476,2174,308,277,937,3306,2786,1889,3554,2468,3387,3062,2167,1003,1855,1552,252,2266,7>>],
    [yplusx |-> <<2708,195,360,2063,671,3690,2535,430,3605,3959,881,1943,2049,1412,241,272,3549,2872,790,2635,1354,0>>,
      yminusx |-> <<1642,700,2277,1490,3057,2277,26,1807,792,1150,3372,2237,1730,3008,2479,577,1850,1713,2853,3566,3365,2>>,
      xy2d |-> <<3256,615,3353,1128,4040,2813,1357,1646,2204,647,1803,3777,1646,678,2845,686,1888,2010,1707,266,838,1>>]>>,
    <<[yplusx |-> <<1301,3359,1911,1630,3370,3868,2656,2298,391,2201,1364,110,2748,3021,1851,2843,2555,1996,2985,1932,1352,6>>,
      yminusx |-> <<254,3947,1933,2284,275,437,1525,3671,2697,2429,2387,3867,378,471,122,146,1616,525,2603,4059,258,2>>,
      xy2d |-> <<1697,1486,1285,3648,1694,665,429,293,1896,3018,1334,2625,2685,378,2805,929,698,3787,2857,605,2775,0>>],
    [yplusx |-> <<3973,86,3227,3008,3783,3455,1535,3711,616,2005,2643,2799,786,1572,4038,1914,4057,921,770,1525,3943,4>>,
      yminusx |-> <<1111,1250,387,1659,3138,3165,3611,1804,1205,1876,1974,1517,2001,191,122,431,1616,2563,2929,3327,2799,4>>,
      xy2d |-> <<1822,337,1540,867,813,956,2120,2201,3857,702,205,1297,148,2781,2670,2160,1377,2694,674,2999,3020,0>>],
    [yplusx |-> <<662,4065,3152,1508,2157,2017,2207,4078,2946,919,224,795,112,3157,2038,956,1986,2291,2320,4054,1656,6>>,
      yminusx |-> <<2504,2842,4074,2402,2142,3281,1149,1617,1589,3710,646,1759,2907,795,736,2825,1854,3435,2905,3850,36,4>>,
      xy2d |-> <<962,1670,355,4003,1414,3873,3379,1394,3144,3944,3079,2799,2206,2551,972,1271,1793,2772,142,3617,3394,2>>],
    [yplusx |-> <<1427,1335,3343,1968,369,1218,3590,305,2315,1254,3985,3593,1322,2791,1671,443,3182,1059,1947,3898,523,4>>,
      yminusx |-> <<667,3581,1428,305,2037,1705,3916,787,2141,1369,97,1281,2117,112,319,3770,802,3373,2232,608,1899,6>>,
      xy2d |-> <<2887,1458,1308,2982,312,2056,2843,785,1772,1819,134,859,3121,2843,3852,1983,480,207,2716,767,1117,7>>],
    [yplusx |-> <<3690,3380,1825,3573,54,3334,2995,2455,2087,3512,2737,1711,2165,3132,521,3388,2105,476,1356,1470,1761,0>>,
      yminusx |-> <<2237,3228,3627,1441,3922,2075,1949,612,1544,1458,3050,1373,3841,237,455,3409,1488,207,2966,974,2786,1>>,
      xy2d |-> <<2378,809,1817,1496,2930,2821,474,3307,3253,849,1330,3232,2743,1181,1045,2012,503,2284,295,3462,2270,5>>],
    [yplusx |-> <<2472,3116,2230,1466,3579,2242,3161,3922,3982,3822,840,343,301,127,145,824,3032,469,2899,1686,2234,0>>,
      yminusx |-> <<1372,1644,1010,889,2071,1181,1358,3268,1733,3223,2248,3130,3110,3979,898,1486,1785,2143,2132,2526,4083,2>>,
      xy2d |-> <<1402,3836,3779,1006,2029,279,3912,3407,1303,3589,2820,1820,422,1023,3450,3747,3668,1999,1172,827,518,1>>],
    [yplusx |-> <<10,289,1865,788,701,104,4030,2022,2925,567,1758,1948,490,401,3702,3601,3038,915,971,958,1859,0>>,
      yminusx |-> <<66,1552,2193,2439,2964,3712,3066,3790,316,3707,78,2636,1264,2393,3699,1803,389,3417,2484,169,1491,3>>,
      xy2d |-> <<2036,3737,92,1100,3961,2623,3153,2821,3556,1491,3159,2119,2678,4053,897,1411,2719,3949,3706,1005,3463,2>>],
    [yplusx |-> <<2433,1503,334,46,2658,3930,1505,1281,2327,213,3234,470,2786,3387,629,394,595,1536,2561,1560,1347,0>>,
      yminusx |-> <<1033,883,1091,790,1402,3473,2689,3914,2030,2955,1786,1152,1446,3695,1022,2825,1974,2042,1136,869,3703,2>>,
      xy2d |-> <<961,1218,1175,3039,3562,2352,3654,2524,2597,1776,3242,2978,666,2954,44,66,1549,121,1581,1075,2836,4>>]>>,
    <<[yplusx |-> <<3275,1321,2332,1358,1660,4025,1589,1612,1682,3938,1328,406,2066,3911,1967,628,3932,3942,2282,2113,1795,1>>,
      yminusx |-> <<3962,1761,1974,2940,3268,2028,3119,3920,3621,343,3140,2801,318,4039,109,1007,1015,3494,1874,1094,2095,5>>,
      xy2d |-> <<3300,804,800,1981,1585,3148,2187,2628,744,260,1192,310,3674,2228,3825,2849,3529,2600,3021,452,3114,0>>],
    [yplusx |-> <<2373,3030,2153,2068,3524,558,3213,3041,125,1753,2829,3162,1372,301,3026,3171,3203,333,163,2483,2666,5>>,
      yminusx |-> <<1095,496,111,3197,589,1437,1984,3512,3646,617,4018,3368,2994,1839,2818,3349,2167,3940,454,2237,3157,7>>,
      xy2d |-> <<1597,2404,1235,338,236,3853,2596,3125,650,2998,1042,1530,3260,1937,3130,2640,4035,4026,2570,2652,1028,0>>],
    [yplusx |-> <<4049,1046,2858,2529,700,2230,89,3637,1832,3183,1973,1686,3421,3459,1087,67,3736,3982,1767,1873,2386,3>>,
      yminusx |-> <<982,2676,1802,1024,3103,3720,1630,1458,203,2989,3788,3373,1679,1718,2820,1396,1587,3545,3530,1471,1593,4>>,
      xy2d |-> <<2716,1497,3354,3506,383,673,92,3344,1468,1908,2716,1790,1237,3861,1214,3837,22,557,2536,2466,1623,7>>],
    [yplusx |-> <<1266,2883,850,2897,828,3603,3712,2365,2121,802,3800,860,1293,2167,296,2901,1985,631,2858,331,709,0>>,
      yminusx |-> <<2583,3074,3657,2279,1462,2036,2467,3018,418,3285,2851,1217,3106,286,1631,1005,3505,91,3230,2125,931,4>>,
      xy2d |-> <<1605,3867,2699,3421,2123,1334,1355,3947,894,2237,1019,3365,2480,3450,2326,787,89,1352,2401,2336,352,1>>],
    [yplusx |-> <<3533,2484,1590,1377,2616,1591,3125,1621,3239,3074,373,2050,1265,3997,539,2012,66,3694,1169,2007,3939,2>>,
      yminusx |-> <<4010,3500,2345,358,1101,2299,857,2113,3916,1321,2522,1365,1341,3236,3939,3742,3595,1688,3013,293,1310,3>>,
      xy2d |-> <<3006,3943,1562,2484,1204,1565,2953,3210,890,48,3030,2463,2470,2559,3809,1821,2714,3298,1767,720,3864,7>>],
    [yplusx |-> <<1314,535,654,1207,2373,3456,1208,3400,2292,1422,3242,2307,3910,1239,2085,3381,535,453,804,3076,1196,4>>,
      yminusx |-> <<2284,22,1195,2278,2684,1079,3525,350,2645,1444,2763,237,1997,3380,1305,149,944,1001,3124,2760,2004,6>>,
      xy2d |-> <<1911,1957,2895,1723,3197,3601,787,2328,3796,863,1163,1128,2411,3180,3233,1197,445,2775,786,456,1389,5>>],
    [yplusx |-> <<2081,446,1713,1653,496,3544,1011,266,2083,2815,3343,1125,2713,1366,720,3979,3845,2247,2252,3043,2426,0>>,
      yminusx |-> <<2434,2259,780,1038,2031,833,1018,346,1854,3952,3633,1606,1907,3248,499,1266,3839,2084,3357,1734,1132,7>>,
      xy2d |-> <<3492,2642,1918,3224,3145,1072,3101,2493,2389,1078,588,3773,1996,159,3128,34,1213,3816,843,330,1918,5>>],
    [yplusx |-> <<1835,1245,3773,3307,1278,281,3874,96,4058,1700,4084,3359,200,1916,2649,292,661,9,2299,75,83,7>>,
      yminusx |-> <<2826,2675,3169,1674,226,3935,421,889,2576,4015,2546,14,2925,2086,318,3102,3906,3448,2415,2030,250,6>>,
      xy2d |-> <<3782,662,1357,467,1597,3467,3377,1530,1342,3120,3315,1070,1213,2251,2965,1648,1021,1589,3233,2272,313,2>>]>>,
    <<[yplusx |-> <<1537,2933,2484,2735,1944,1826,3501,1480,531,2759,862,2562,439,1558,3754,3372,3406,2295,1257,2856,3007,1>>,
      yminusx |-> <<1011,691,2616,88,2549,2888,2240,2772,2571,3627,3674,2870,1341,58,949,2297,742,2595,3477,3801,2723,5>>,
      xy2d |-> <<1377,3478,2503,1918,1383,870,1920,1836,596,689,3787,1774,2384,2461,1330,1616,1996,2197,3678,3604,2567,4>>],
    [yplusx |-> <<1179,1914,3524,1420,1035,370,2032,1604,2782,909,3581,1706,1992,810,653,409,129,2810,3460,1966,175,5>>,
      yminusx |-> <<2457,223,2968,300,3812,1812,3783,966,1903,349,3491,1919,604,3561,1517,3002,1026,787,2333,2755,3851,3>>,
      xy2d |-> <<3045,3941,277,3552,3663,2854,265,534,1569,2434,2345,3437,2989,2064,517,1920,6,3773,1722,2609,2337,1>>],
    [yplusx |-> <<395,3900,2777,2777,1882,2509,449,1547,3823,1696,2390,237,1372,2754,2571,1001,2037,1580,3232,2526,2820,7>>,
      yminusx |-> <<252,2951,3807,759,2370,3032,1715,1271,3051,662,1836,1247,1730,3395,2289,115,3760,1850,482,3572,1112,6>>,
      xy2d |-> <<1155,1092,2613,3639,3275,2365,3518,254,2355,2183,1909,3544,709,3121,4,1926,3684,2384,3010,3532,147,6>>],
    [yplusx |-> <<843,2112,3680,3819,3038,1350,4024,1920,694,2460,1329,105,1581,2747,886,2419,3472,1607,2443,2060,3633,6>>,
      yminusx |-> <<109,3591,1413,2472,4083,817,1849,2878,1496,3338,2870,1107,399,3607,2546,1083,2428,634,2120,3744,2001,5>>,
      xy2d |-> <<113,651,1953,2926,3706,2734,2187,2362,2413,3093,164,1555,545,2091,1246,3963,3352,2427,3549,2457,1598,3>>],
    [yplusx |-> <<3782,1210,3298,1165,3864,1538,3247,2987,597,2487,374,3731,3311,1763,2876,2316,853,3995,3014,2425,799,2>>,
      yminusx |-> <<4036,3809,309,1084,1704,3321,1224,142,853,1771,151,3379,1420,27,3944,2882,1323,928,2153,2487,2286,4>>,
      xy2d |-> <<966,687,3020,3556,3121,501,141,4066,48,1211,1712,2886,335,156,3440,2936,1043,1938,2824,4009,1947,0>>],
    [yplusx |-> <<581,3412,162,3800,969,1327,1593,1919,2936,2568,1290,1351,264,1597,3500,3446,875,1798,1428,4017,3828,1>>,
      yminusx |-> <<3572,768,474,933,912,2830,2394,986,1059,918,132,1608,2869,720,3313,3795,404,2071,1668,1919,908,0>>,
      xy2d |-> <<3052,359,1627,1518,1358,3112,205,2413,2626,1424,2393,537,2064,841,735,1835,3926,191,2634,3730,1886,5>>],
    [yplusx |-> <<2049,2637,1290,3012,3398,3461,953,2643,551,2801,707,108,2953,610,3643,905,2075,757,3640,487,10,2>>,
      yminusx |-> <<4047,386,138,2057,1216,3037,2205,2452,194,3607,3632,829,759,1397,2749,91,3328,3391,300,3697,980,4>>,
      xy2d |-> <<2757,3987,2026,2966,397,3077,1618,86,2203,3017,1393,2431,1649,3477,2949,4066,3640,484,613,3237,1294,0>>],
    [yplusx |-> <<2282,3686,1632,919,1964,2425,2740,339,3070,411,3995,2681,1260,2899,377,1227,3671,794,4001,3081,337,6>>,
      yminusx |-> <<3228,1008,3653,429,835,2492,59,4087,1118,3920,3561,1971,3460,3230,2426,4045,1222,1423,540,3692,2830,4>>,
      xy2d |-> <<3478,3845,3581,1472,2805,1955,1262,683,3808,610,2525,368,535,2161,699,283,779,240,2688,591,4079,1>>]>>,
    <<[yplusx |-> <<2950,2422,1328,2815,722,66,582,3117,2054,2315,1421,2990,3557,1732,393,3530,3095,832,1736,1534,2048,2>>,
      yminusx |-> <<406,2675,2842,1343,2006,387,1892,1021,1328,2377,527,379,2874,159,11,2770,318,3206,2351,1170,1101,5>>,
      xy2d |-> <<1672,1320,3892,2985,2799,2582,125,593,3988,447,1628,1203,1753,3286,3003,3957,3578,790,783,1833,740,7>>],
    [yplusx |-> <<1575,679,1491,3939,2035,3840,1382,1526,3462,2724,122,1093,2256,2418,1511,968,1080,3590,15,2032,4078,1>>,
      yminusx |-> <<2127,2064,3223,520,1685,3602,1294,564,2571,1282,689,3552,1007,2656,3502,4057,844,826,3111,744,2717,5>>,
      xy2d |-> <<2021,3519,2563,93,1619,3031,1229,323,585,3503,3236,2190,586,3293,2773,1972,1347,64,494,1029,249,0>>],
    [yplusx |-> <<1875,2809,2823,2363,2031,2685,1894,987,207,1005,1368,492,3595,3062,2456,3302,1106,3392,605,4093,1975,4>>,
      yminusx |-> <<178,3379,963,1714,3381,104,1819,2820,2971,456,3314,2947,3650,1734,3121,2870,269,3755,3723,2503,2007,0>>,
      xy2d |-> <<3346,141,3260,4025,2043,2488,3778,3614,2874,102,3978,3099,2847,701,1828,213,2998,2660,862,522,3125,1>>],
    [yplusx |-> <<89,1724,33,1780,3496,2028,3288,299,797,2994,31,153,1991,2529,1386,2889,3669,3346,2918,195,2165,3>>,
      yminusx |-> <<842,3258,1724,1338,210,2488,2081,899,929,1564,1598,3641,2178,25,950,2316,1647,238,1885,87,3133,1>>,
      xy2d |-> <<1306,558,148,3860,2350,1814,3574,693,1852,3084,2507,3586,1100,3703,335,528,2172,772,2003,3628,1569,0>>],
    [yplusx |-> <<243,3519,1712,377,1966,2411,3297,3607,4025,3578,1108,2619,2474,1822,560,601,3741,2,3233,1417,3470,5>>,
      yminusx |-> <<909,1432,3202,1548,3992,3530,3994,3177,2241,3748,144,483,1368,886,1608,1618,1468,3386,2427,3424,7,0>>,
      xy2d |-> <<2379,1066,1288,473,191,1004,3886,1416,867,3388,4018,3630,2897,907,1556,169,3974,459,2108,3447,1411,1>>],
    [yplusx |-> <<2247,2514,1228,1136,3,2297,3269,3954,1950,438,1565,2162,3675,1531,299,366,2058,3157,3715,100,2392,4>>,
      yminusx |-> <<2785,2599,3933,2606,3310,1870,1793,1366,2580,1987,2649,359,1545,294,1578,3226,3952,3800,3713,1522,1322,2>>,
      xy2d |-> <<2061,1646,1616,2370,3368,1712,3212,775,1925,3135,3580,303,3089,1920,986,437,904,1083,3032,368,1948,0>>],
    [yplusx |-> <<86,3421,192,3285,3542,956,855,2992,2157,3958,2202,3828,963,1023,1650,970,2764,1976,1841,3085,1896,6>>,
      yminusx |-> <<4095,4006,1124,3790,1286,560,1509,1568,798,3636,702,3748,440,581,2370,855,2816,3231,842,94,3564,6>>,
      xy2d |-> <<435,1372,1521,606,1206,2329,2939,2455,935,1983,65,608,3435,3526,3261,3106,756,3285,1245,1505,324,5>>],
    [yplusx |-> <<1109,3050,2859,1146,2353,664,1937,2336,591,1338,1932,3962,3632,1163,2553,1204,1085,1277,2158,2304,745,1>>,
      yminusx |-> <<2385,324,2875,692,1872,2869,3004,1092,3947,1663,2958,2141,1635,625,3433,2955,1480,2345,483,1779,792,1>>,
      xy2d |-> <<2862,3579,895,2411,268,3999,3306,289,862,2473,3999,2435,2651,3139,310,3569,2479,1001,93,3647,1970,7>>]>>,
    <<[yplusx |-> <<164,3547,3090,1593,1432,1725,1158,3074,3888,3353,165,3654,2300,53,3119,3351,3722,149,1326,2385,1953,0>>,
      yminusx |-> <<1246,748,1436,2716,2415,3250,1267,1272,447,2230,2236,3984,1960,3473,1798,455,1373,3378,3194,2399,951,6>>,
      xy2d |-> <<4040,2533,568,2288,2102,954,3556,3320,2818,1075,912,612,1345,1500,509,2810,311,752,3331,3715,3727,3>>],
    [yplusx |-> <<316,3837,3560,1224,2160,784,55,830,2702,3153,991,3294,608,2641,3421,2649,3206,600,2470,137,726,2>>,
      yminusx |-> <<660,1802,2309,347,3979,1170,2117,1648,624,3876,1172,4056,443,3606,3162,3553,7,2756,2431,951,1466,7>>,
      xy2d |-> <<406,3293,112,3516,569,2470,3466,1735,2699,4072,96,294,2880,3022,2119,2872,3678,1913,2951,3335,2308,0>>],
    [yplusx |-> <<185,3988,1608,726,1074,927,3340,3026,3852,2386,262,3987,129,2778,1687,359,2668,3954,3770,2732,576,6>>,
      yminusx |-> <<412,2985,1245,509,1230,2731,3213,3188,2878,797,463,3269,3462,1594,972,710,3591,477,4028,323,994,4>>,
      xy2d |-> <<1440,2601,3163,1865,2100,1455,2002,3235,3163,2375,2774,790,1993,2686,315,1647,3244,2880,909,2802,1725,5>>],
    [yplusx |-> <<2994,2515,3265,3382,784,2961,902,1570,2999,678,3078,1269,1953,2333,2949,1993,1876,485,126,789,938,0>>,
      yminusx |-> <<1003,851,1013,2974,1578,1027,2365,1771,2261,2134,563,1367,3418,1313,3604,2528,792,1857,3459,2694,3364,1>>,
      xy2d |-> <<3615,3404,2303,1892,1260,463,3212,1354,2800,1118,3296,855,3337,2081,549,2189,2137,3764,3226,1565,946,4>>],
    [yplusx |-> <<868,2385,2924,984,2385,1969,3060,0,294,4071,1940,2390,1359,3549,3344,40,2404,2368,578,3422,692,0>>,
      yminusx |-> <<2491,2999,2440,481,1371,2526,2613,3095,125,2541,928,3747,61,3622,3118,2818,3010,630,3931,1372,608,3>>,
      xy2d |-> <<3570,3352,2856,1372,1185,139,3301,390,1606,3268,2538,1080,3202,2358,3316,3145,1040,1491,2478,3200,1958,2>>],
    [yplusx |-> <<2388,982,2756,624,3372,2860,1738,1702,3671,1187,3293,54,2519,582,2649,1951,1433,2242,61,54,533,2>>,
      yminusx |-> <<392,219,3359,3772,2982,3720,2651,1653,1850,3389,2615,1413,1525,2609,3807,3874,382,1546,1279,1815,3254,2>>,
      xy2d |-> <<464,190,2361,3295,2542,3861,3299,1832,68,1058,1193,3855,2708,1639,2332,2088,1078,2319,1848,3915,2845,7>>],
    [yplusx |-> <<1420,3983,2055,545,3886,3397,1033,3401,3231,1365,227,2659,4022,2257,2728,2858,61,1326,1491,2084,2153,6>>,
      yminusx |-> <<548,2858,179,3886,1170,1550,1297,693,3590,1737,3708,1968,3455,3616,2959,350,2450,4037,1624,3826,508,6>>,
      xy2d |-> <<2170,385,1322,1496,2993,3453,3500,2157,2771,3658,755,3144,4086,2064,2786,1099,463,2800,1853,1220,1743,4>>],
    [yplusx |-> <<320,1176,2033,1770,316,1346,2888,914,3832,487,2684,3307,1577,2245,2243,584,1467,2252,1293,2734,101,1>>,
      yminusx |-> <<1529,3150,3486,606,613,52,51,361,2561,1517,3086,3245,3045,3884,423,1835,3904,3765,3348,1980,2360,2>>,
      xy2d |-> <<3415,512,1503,1106,3116,1185,2663,3068,3542,946,92,1027,387,2846,2023,160,1814,462,1615,2446,2465,6>>]>>,
    <<[yplusx |-> <<2797,3164,1244,1091,257,830,1275,968,3478,3797,1863,2574,3462,1902,405,1792,2532,1663,3026,1687,1458,2>>,
      yminusx |-> <<2236,423,217,2862,98,1657,150,3205,2204,3224,2119,1803,80,1636,1354,2527,447,2362,2340,3690,873,7>>,
      xy2d |-> <<2148,2438,2835,1023,3431,2953,3527,1045,3033,2655,3644,949,3879,957,3788,3588,3282,1252,3509,1667,1056,1>>],
    [yplusx |-> <<2768,3269,4033,2998,1262,2227,1708,2404,3305,432,874,3557,1643,1178,218,3387,449,3336,353,948,488,3>>,
      yminusx |-> <<407,2525,3620,3025,1144,43,2241,1509,1280,195,3170,2757,3258,764,723,4016,1837,138,3061,958,182,6>>,
      xy2d |-> <<2895,98,670,3185,2024,3465,522,659,3919,3656,3913,1667,3864,1206,3297,1470,791,1360,1581,491,1487,5>>],
    [yplusx |-> <<3154,3928,893,2910,118,867,2508,3705,2525,939,215,3810,2323,3636,796,3032,307,2976,2658,4026,2646,1>>,
      yminusx |-> <<3416,3107,101,257,2169,2501,1153,1289,2157,2512,1931,1530,709,2705,47,3620,468,137,1111,1622,1690,6>>,
      xy2d |-> <<2540,2524,92,1717,1086,425,3127,2679,1979,597,304,1893,308,1380,942,2439,2652,3160,1945,2102,964,1>>],
    [yplusx |-> <<128,2237,2653,4022,1244,1068,2632,1393,1260,3772,1502,1334,2277,2107,744,3403,2087,3675,3528,3207,189,5>>,
      yminusx |-> <<441,2878,1626,1492,570,1556,319,3199,391,316,1788,2971,3253,1614,2102,415,1543,891,934,201,1784,6>>,
      xy2d |-> <<273,3582,878,888,109,3478,427,3841,3605,851,1586,953,1463,3122,58,1611,1454,1533,1138,1604,3541,1>>],
    [yplusx |-> <<2202,2988,8,3680,663,3596,451,3758,2577,1230,3197,2423,4071,3609,907,3902,1485,2608,3939,1104,2618,3>>,
      yminusx |-> <<637,1569,2099,2047,4004,344,3452,1820,2756,2550,3004,200,2338,1076,325,1767,814,2551,545,1425,3684,0>>,
      xy2d |-> <<1575,916,472,755,1935,256,1189,3561,387,2515,56,1784,1945,1745,876,3358,2171,2714,915,2265,396,3>>],
    [yplusx |-> <<920,477,2475,2530,3430,949,3486,834,1624,2337,3580,1852,857,4063,1309,1368,2806,2384,805,1052,154,5>>,
      yminusx |-> <<3609,4095,810,1488,628,1647,1243,2034,3145,2547,3852,2446,2693,3643,2259,3017,788,469,1946,1990,588,2>>,
      xy2d |-> <<1513,3986,3238,1773,3520,827,2847,1601,1012,1007,2425,1000,3459,2057,3090,2094,905,2577,808,3842,1471,0>>],
    [yplusx |-> <<740,3153,3341,2573,2177,4070,1530,1098,3528,3696,79,1316,3914,1720,1166,503,1002,26,3566,1916,1890,5>>,
      yminusx |-> <<11,3246,35,311,1586,1427,3279,3354,3850,1196,2132,456,538,1181,1040,2407,1191,676,1018,2252,2059,7>>,
      xy2d |-> <<95,1267,3107,2219,3827,129,1502,320,4029,1399,3482,672,1254,323,677,1512,1953,1819,610,391,4084,5>>],
    [yplusx |-> <<1344,2921,2067,1150,1499,3614,1552,1074,2619,1490,1779,295,2168,3731,3878,2753,2921,2572,3232,3512,2516,2>>,
      yminusx |-> <<2973,2205,3095,128,2446,3923,1912,3902,37,1538,3495,53,1725,1216,2185,4009,1726,2710,3109,61,106,1>>,
      xy2d |-> <<976,821,3891,170,2477,3677,777,2765,3493,1641,56,3967,2184,2220,1893,965,3834,715,261,2213,2739,4>>]>>,
    <<[yplusx |-> <<156,3548,3935,3358,1743,3309,1885,3957,3837,691,744,844,22,1490,1387,605,2971,3794,2820,3179,65,3>>,
      yminusx |-> <<1427,1677,1383,690,2684,317,714,1090,87,3100,3480,3297,2570,3420,2059,3866,1680,2186,3520,3354,2509,2>>,
      xy2d |-> <<328,1390,2521,3887,4082,736,1387,2547,1909,3705,3245,37,3948,2997,1688,420,2683,73,2068,3030,75,1>>],
    [yplusx |-> <<355,2047,4054,2469,2397,2074,1878,1228,1693,702,2025,3877,3616,1229,2050,2943,3573,114,251,674,79,2>>,
      yminusx |-> <<3431,3870,360,4051,496,3109,3899,3462,3533,2065,3628,3885,1234,1072,3164,1101,329,679,1801,3269,3048,5>>,
      xy2d |-> <<121,3771,3376,947,2068,780,1326,3030,1370,2193,373,1475,3949,792,3132,1619,1567,1937,1986,4017,1392,2>>],
    [yplusx |-> <<1114,2946,1291,2709,2350,3345,80,2297,2984,3695,1480,3219,2212,728,1770,1944,1640,24,478,1529,1052,2>>,
      yminusx |-> <<1397,2913,3884,871,3834,1731,1538,461,3958,3990,757,598,1461,678,1812,3724,2765,48,2643,1630,3531,3>>,
      xy2d |-> <<3242,3558,2368,370,2264,930,2419,557,3312,3058,399,29,859,3538,2044,365,229,3295,3423,237,2114,0>>],
    [yplusx |-> <<206,3905,3588,3124,856,2128,3590,630,2906,309,438,338,3001,3198,1648,1497,2204,3512,801,1359,1238,0>>,
      yminusx |-> <<2634,1583,2947,522,3583,1772,2622,3617,2260,3601,2903,3682,3129,383,1942,3633,2557,374,4028,1342,3482,0>>,
      xy2d |-> <<1493,3035,1757,3089,3709,725,1501,2266,3766,1357,553,2601,820,371,1544,459,2775,2449,1560,1266,2682,4>>],
    [yplusx |-> <<2635,882,431,2857,1219,3874,327,1816,624,3496,659,2543,1673,1608,1157,3544,3635,3598,547,788,2710,4>>,
      yminusx |-> <<3989,2837,607,384,1191,2303,3099,1717,3892,3941,573,273,224,2128,3312,3295,2120,3377,3293,196,437,1>>,
      xy2d |-> <<4054,2639,1032,628,1768,3482,1398,2497,1918,2273,627,2879,3330,2915,840,1907,3153,1724,3534,3300,3915,4>>],
    [yplusx |-> <<2927,2512,3780,1558,226,371,3107,3246,399,1383,1764,1274,619,2495,2880,1166,3895,1429,1377,3310,66,3>>,
      yminusx |-> <<1412,578,2786,3301,1823,2538,1418,2351,598,3751,1062,975,3306,3441,2569,3361,486,448,1207,3537,1020,7>>,
      xy2d |-> <<3137,2490,2372,1799,638,164,561,3022,877,1454,3205,423,3972,533,3702,1226,470,2510,3226,1856,2206,3>>],
    [yplusx |-> <<3112,234,1623,1935,2493,3612,412,633,2866,1456,3557,2334,411,2746,3134,1631,1680,611,1494,606,1476,2>>,
      yminusx |-> <<2510,3531,3636,2874,1276,2774,2256,3636,803,1280,2967,897,710,2006,1008,1115,1928,1446,2374,1335,340,6>>,
      xy2d |-> <<3694,3453,1777,106,3902,131,1571,2272,1575,3991,1854,1735,3722,612,1270,2241,1881,1156,2325,2568,1337,6>>],
    [yplusx |-> <<2585,2996,1044,3517,3524,2285,591,2436,3132,2859,2329,1814,1738,3443,2207,1162,3472,411,3824,800,3941,0>>,
      yminusx |-> <<1907,3375,1219,503,2514,1118,1128,604,1089,1285,961,2531,2489,3727,3676,1572,2156,3281,2757,3658,453,1>>,
      xy2d |-> <<198,4062,458,3355,1158,2077,2897,355,1763,1022,2639,2361,2802,223,2223,1434,1834,816,3564,3195,3243,4>>]>>,
    <<[yplusx |-> <<649,1933,3903,1928,143,2556,77,2580,1836,778,3582,3273,3941,4044,1931,3879,33,3250,1626,2433,3812,7>>,
      yminusx |-> <<2606,2496,1032,2402,926,898,3655,943,1216,1164,2759,2578,1615,679,3053,381,1410,456,50,2367,923,6>>,
      xy2d |-> <<451,282,913,142,3029,2199,116,2057,212,697,2347,4049,3698,3114,686,3709,678,2912,3205,1171,3807,0>>],
    [yplusx |-> <<275,1892,644,3149,1895,854,1528,3967,63,2308,3744,3053,2790,4012,4047,456,873,3578,1233,197,1216,0>>,
      yminusx |-> <<2664,2485,2137,2069,3788,234,3554,3770,3855,1396,2026,2032,694,1858,1053,1278,4020,2516,769,2350,59,4>>,
      xy2d |-> <<3320,1125,395,760,3522,3972,239,328,858,2575,1905,3429,1223,2768,2239,2798,1780,1559,2738,2834,1371,3>>],
    [yplusx |-> <<792,2247,1882,3500,769,282,3754,2876,925,2304,3565,1010,2990,3059,1916,1776,3470,1322,2272,3759,1304,7>>,
      yminusx |-> <<3060,2363,3188,1612,1822,3130,944,3786,1241,3032,1509,3704,2565,207,3013,166,786,748,536,2067,3995,0>>,
      xy2d |-> <<3122,2038,1051,1436,1160,2442,2098,3907,188,726,2319,3357,2481,668,1449,385,1476,373,3003,2161,1987,4>>],
    [yplusx |-> <<1712,1286,200,1493,3046,2831,665,2874,1200,3788,98,3726,1050,3748,1876,3667,3423,3400,3304,2562,2302,0>>,
      yminusx |-> <<3912,3780,1905,1337,324,1765,3165,3224,381,91,3064,3174,1987,420,705,3958,2524,1129,1398,2488,184,0>>,
      xy2d |-> <<2768,3566,1640,3543,589,568,2141,1206,1312,1604,1480,3430,3465,3285,1231,2897,1335,1885,1871,666,1848,4>>],
    [yplusx |-> <<713,912,2733,1331,985,2290,856,3824,3534,3117,1124,763,4065,2316,1395,338,912,3661,3396,2228,3174,6>>,
      yminusx |-> <<1048,1948,1350,3495,722,3848,397,2854,2008,957,2790,3760,3143,586,3823,853,1716,828,3144,1668,120,2>>,
      xy2d |-> <<524,1928,378,3314,2888,2419,1854,2066,2738,1696,3063,3799,3214,2680,3173,2710,831,2212,1359,2656,1041,7>>],
    [yplusx |-> <<1460,2839,3352,3667,1946,37,673,3897,345,1811,1384,863,3823,2977,1516,2117,2447,2243,581,2695,3785,1>>,
      yminusx |-> <<2157,2524,697,2515,3429,340,2801,1539,3189,1229,2052,3656,3266,717,3185,2868,1279,2067,1275,1623,3091,7>>,
      xy2d |-> <<155,2597,1024,2637,2278,2891,2178,188,1794,2077,411,1878,405,2495,1996,1406,1120,3286,1479,2186,2781,3>>],
    [yplusx |-> <<70,915,1113,2445,1474,3784,1625,1535,1432,2019,2703,1763,758,687,3234,466,1824,106,420,275,442,6>>,
      yminusx |-> <<3314,861,182,1399,2953,3018,3103,3942,3948,3582,1794,3352,3766,1675,770,2133,3700,2169,3276,671,1177,2>>,
      xy2d |-> <<41,2393,278,2575,976,2202,3773,2983,2924,950,1794,816,1656,994,346,1983,3303,3470,3259,784,1568,5>>],
    [yplusx |-> <<1494,3624,1143,2911,1606,2358,3937,1736,3943,3727,3392,2381,2997,282,3187,2670,3149,2254,869,1135,3784,7>>,
      yminusx |-> <<1603,845,841,2356,649,3925,546,2641,2054,3519,697,450,1012,2300,3463,2294,1840,2521,2637,1698,1895,3>>,
      xy2d |-> <<3783,2594,3869,2291,2910,313,461,1728,3447,241,2067,2555,664,3322,3215,532,3541,2489,825,3954,3498,6>>]>>,
    <<[yplusx |-> <<3746,2776,4012,75,2107,2117,3048,328,1000,2932,2857,3165,2064,944,3672,689,2986,2875,1422,1182,2900,2>>,
      yminusx |-> <<3655,987,747,1878,3898,2949,3488,2283,2132,3747,2551,1833,1396,788,997,12,1361,637,1814,3742,772,1>>,
      xy2d |-> <<3326,3529,618,333,2200,183,2269,2228,2879,442,2620,3168,2425,4095,4065,3488,1683,733,3452,3554,1128,4>>],
    [yplusx |-> <<1998,1584,1784,3468,2970,644,3340,1077,1329,275,3105,1906,1402,3158,2150,3402,850,583,3683,1063,3494,5>>,
      yminusx |-> <<1694,404,3732,853,443,1349,3527,573,3148,3693,563,2454,1151,3428,1462,2362,3427,1099,4091,1990,3278,6>>,
      xy2d |-> <<714,2754,2270,3176,2708,3969,3615,3002,3831,102,4025,1408,3417,904,3468,2186,3240,2546,4071,2475,2290,5>>],
    [yplusx |-> <<3574,236,3953,1611,2906,964,3113,1122,1336,1230,2481,939,1291,1389,976,868,2160,1460,1048,882,2809,6>>,
      yminusx |-> <<3688,3699,2957,3322,2318,2654,3702,887,3999,54,596,1432,3585,187,2395,3844,3638,3905,1191,668,1910,5>>,
      xy2d |-> <<2184,3178,1289,36,544,1843,1417,1205,1555,3587,4050,649,3123,563,566,2110,399,2796,2828,603,31,7>>],
    [yplusx |-> <<275,3052,2428,3949,3352,3657,4059,1867,1766,1184,1668,1549,3150,554,1461,527,3665,2389,80,1468,522,7>>,
      yminusx |-> <<3309,1558,2276,2831,936,2012,1448,2530,1550,6,3319,2649,1212,511,774,1566,3049,3136,4029,2347,3596,2>>,
      xy2d |-> <<2613,2053,923,148,3135,4032,683,1572,2871,1256,1768,2356,3106,3893,1047,1681,236,1263,2836,2507,3739,0>>],
    [yplusx |-> <<3822,2843,1373,2493,3566,2968,575,167,2871,3130,457,3449,3176,3057,2289,1098,3294,4051,2332,1089,1645,3>>,
      yminusx |-> <<173,1394,4091,3400,3002,239,2317,3519,363,2073,4078,1083,853,1318,305,3400,3032,823,2879,78,529,2>>,
      xy2d |-> <<3092,3016,1010,372,3644,953,1388,2904,1788,3490,1838,4025,2215,230,2095,3275,580,1427,1724,2638,359,4>>],
    [yplusx |-> <<4078,3304,1528,614,702,716,214,3720,3860,1663,3817,1262,3894,2018,3694,3858,758,2029,203,823,1203,3>>,
      yminusx |-> <<1792,3938,2166,2514,1083,3766,1640,231,3392,473,1117,104,508,50,2883,436,1130,1362,3618,2999,2360,7>>,
      xy2d |-> <<1740,2077,3718,2334,3525,1340,1447,3800,156,33,974,2184,2176,3093,1157,3799,1508,4070,3629,4038,374,1>>],
    [yplusx |-> <<3768,1904,2377,3624,2960,2621,1088,2767,3114,4028,2968,2169,3799,4077,1359,531,1718,1680,1266,997,3946,1>>,
      yminusx |-> <<411,2502,91,1741,1199,2059,1412,2858,2548,3580,1069,1244,3049,46,4005,980,3892,2005,3175,932,2300,0>>,
      xy2d |-> <<1258,115,2515,3097,164,3430,1628,785,1462,3080,1344,2089,1881,575,830,3619,209,2960,278,2768,3887,4>>],
    [yplusx |-> <<1592,955,3511,3473,1580,137,668,4033,1962,87,2534,360,950,927,411,1782,3713,1102,3881,2453,1105,3>>,
      yminusx |-> <<3668,2788,404,2852,1214,1732,2031,389,3153,1345,2143,73,1677,723,3691,2657,1963,751,1175,2122,1108,4>>,
      xy2d |-> <<3452,3751,159,4045,338,3945,860,2825,3220,2070,74,1476,1832,2724,3738,600,951,649,1540,2506,184,1>>]>>,
    <<[yplusx |-> <<110,1119,3674,1051,1337,1623,3167,1753,3821,1994,1744,1307,767,2503,1899,279,3497,212,2543,3357,2002,1>>,
      yminusx |-> <<2204,386,2455,1140,3417,611,831,581,2245,3775,1298,3825,1219,3249,703,38,398,2933,1399,1933,184,2>>,
      xy2d |-> <<3690,1011,2055,2801,2034,1682,528,3445,1305,1022,765,2,3238,707,951,558,1703,1628,972,1270,545,7>>],
    [yplusx |-> <<2505,946,2548,2939,3485,1873,399,1269,586,88,1238,2524,303,3027,114,3884,1456,340,1370,2760,3876,1>>,
      yminusx |-> <<1683,122,83,2036,1251,2395,871,755,1239,2673,2475,265,886,2679,3024,3439,3017,1820,1409,1164,4063,5>>,
      xy2d |-> <<1450,2384,654,131,1238,3810,1056,193,465,1164,583,602,1787,1472,4068,3199,1510,3641,3626,1849,186,0>>],
    [yplusx |-> <<2854,2187,1514,623,3652,4026,1851,2121,2521,103,54,1253,1641,194,3843,1481,550,397,2005,2014,553,7>>,
      yminusx |-> <<214,2169,3676,2445,2350,3573,674,1116,2003,3067,741,2450,2484,1551,2619,277,2291,2775,3687,931,808,0>>,
      xy2d |-> <<2361,203,1982,476,2084,2052,816,2230,2893,3865,2098,2352,552,208,4041,3389,2373,625,2118,662,1505,0>>],
    [yplusx |-> <<1360,708,2084,3004,3519,3482,129,3331,3308,3200,700,3577,1480,2671,1382,2115,3660,1420,898,605,2255,7>>,
      yminusx |-> <<2394,2500,813,3819,2690,1995,3001,3858,2300,3836,206,3358,949,2793,3499,2818,3483,1688,3091,201,2496,3>>,
      xy2d |-> <<3432,1161,3633,1720,1454,2161,3056,2498,3243,2129,1450,4000,78,2431,1882,3226,2098,1023,1899,1312,107,0>>],
    [yplusx |-> <<2093,3296,1721,2017,1483,671,2748,1047,332,127,2868,2682,3060,3298,875,3403,1486,2551,1562,3733,3554,7>>,
      yminusx |-> <<2076,2391,413,3326,2528,3618,784,2406,3864,2077,2486,1715,81,3383,3897,1405,290,3190,1083,3636,3415,4>>,
      xy2d |-> <<3787,2645,1206,3407,3696,2461,1499,1496,639,21,328,2472,1006,1037,2500,3516,2541,1538,3866,2314,2858,6>>],
    [yplusx |-> <<2058,2861,1115,3890,2027,2487,2311,763,2887,769,984,1843,3310,3876,2022,3172,265,1730,2087,300,1624,4>>,
      yminusx |-> <<3735,3681,3226,3919,2339,3350,3935,3587,2077,850,3415,3346,1773,1086,1198,2678,3658,723,2513,3918,4056,5>>,
      xy2d |-> <<729,262,554,3051,3395,356,476,899,2933,1631,1904,1677,3625,1981,3402,384,1936,2838,2844,706,1459,0>>],
    [yplusx |-> <<405,3416,3194,2626,2044,3279,1011,1075,2158,322,3378,2425,1035,211,669,2924,2017,1840,2134,420,375,3>>,
      yminusx |-> <<2301,1242,3282,1516,2240,2108,4079,93,2732,3313,417,3286,3577,3879,3823,3515,3737,1137,891,1386,2901,3>>,
      xy2d |-> <<1154,1245,1249,3154,688,2915,2980,418,340,2869,1005,1455,2091,1154,352,2621,1771,1843,634,1949,4032,4>>],
    [yplusx |-> <<1293,2156,1036,2228,3124,1309,1254,3273,3017,892,2323,971,1086,1238,759,1602,3336,3644,698,1804,1041,2>>,
      yminusx |-> <<3967,3058,137,907,457,2677,4073,45,3429,2427,804,3653,2176,2503,4032,4095,3730,3992,3786,1660,581,1>>,
      xy2d |-> <<948,3143,1546,2744,4089,851,996,17,3566,2321,4080,3146,3014,1550,1872,1198,13,2160,1644,297,3974,3>>]>>,
    <<[yplusx |-> <<3347,72,2614,4047,3096,3545,2461,1848,3507,345,2601,3338,3986,185,3893,3529,2516,2209,3719,2030,1781,2>>,
      yminusx |-> <<3550,672,2424,204,1434,2133,387,3751,3506,476,3157,568,495,1459,646,2038,317,1846,1657,2679,74,5>>,
      xy2d |-> <<4017,2174,1366,717,3243,1968,2801,583,354,2061,1873,582,3930,836,346,2140,105,2979,3485,2371,65,4>>],
    [yplusx |-> <<2781,1738,930,1908,2849,3300,2743,1608,1060,2667,839,3230,1019,1952,3407,3249,25,13,664,788,729,1>>,
      yminusx |-> <<3222,3772,2627,3819,960,2812,2716,622,3228,1865,1677,3276,3191,3809,2709,3487,1039,2115,2422,2589,1056,1>>,
      xy2d |-> <<2383,885,2515,1913,198,1968,2724,2851,320,965,1374,3897,863,1358,2088,1089,18,1434,323,2339,2895,1>>],
    [yplusx |-> <<1713,2438,164,771,975,1427,3912,533,978,503,1573,3919,478,1029,682,2744,1014,2466,1391,2333,4081,5>>,
      yminusx |-> <<2385,336,3465,265,3676,1699,2409,734,2705,3311,57,770,1887,1017,2788,526,3502,306,2687,1394,923,2>>,
      xy2d |-> <<104,729,940,3395,414,568,2437,1532,2937,2106,3368,3763,1427,2053,1394,3828,1739,2291,2677,1318,524,0>>],
    [yplusx |-> <<3209,1068,2544,3829,2353,2926,587,2273,3229,1417,1836,1433,3783,2218,2273,2780,1292,44,2646,4064,1324,4>>,
      yminusx |-> <<3004,3469,2206,847,1944,1735,3236,3527,2809,3882,1224,2823,993,3530,588,2709,2167,787,1557,3268,682,0>>,
      xy2d |-> <<2015,1927,100,3962,1696,2552,124,230,1063,3142,2491,284,507,607,2026,2737,1915,1208,2864,2007,3323,4>>],
    [yplusx |-> <<3858,2206,663,2460,646,222,1817,3573,3441,1772,43,1805,3273,1406,968,3124,2757,1235,3139,1227,2845,5>>,
      yminusx |-> <<1534,2487,3256,982,692,2055,2780,2502,1241,3177,3924,1225,3811,883,938,2956,868,117,2873,1570,1204,1>>,
      xy2d |-> <<3878,169,1484,609,1787,3675,3532,2952,3627,1264,1338,2672,873,2227,329,304,3537,1426,600,3953,3992,2>>],
    [yplusx |-> <<1793,1354,1103,2788,3602,3554,3031,2716,3824,4067,252,1502,1411,215,3977,3307,1364,1556,2535,1582,3456,1>>,
      yminusx |-> <<3670,249,3253,2676,3220,512,3603,2280,1193,511,1883,246,560,536,2764,2466,2809,106,2520,3620,2666,3>>,
      xy2d |-> <<3162,2311,1449,3496,1402,1574,2319,2331,2229,234,2330,2894,3892,4029,3613,2256,4083,3877,2222,2254,2443,2>>],
    [yplusx |-> <<1502,534,2570,1838,890,3944,3961,188,1972,2736,63,2791,1848,3191,1590,1313,2012,2685,2051,625,2982,6>>,
      yminusx |-> <<3250,3952,1007,1941,2706,1890,1392,1937,2346,2204,2635,3318,167,1955,2117,2369,1157,1486,77,2692,1208,3>>,
      xy2d |-> <<821,1683,1411,3787,622,4060,1534,1595,991,2689,981,599,1202,2474,938,2601,3178,1505,3398,701,470,7>>],
    [yplusx |-> <<3829,3957,2737,2909,3373,3932,101,363,1487,2041,1495,3848,3913,3747,1823,325,2877,690,294,866,3123,1>>,
      yminusx |-> <<3968,1933,2259,3266,1331,2886,4004,160,889,3508,2806,3493,1793,3999,1119,3638,2980,370,2035,3889,1237,7>>,
      xy2d |-> <<2689,3484,1127,3669,2159,890,2444,690,3189,2231,2873,1571,940,2350,3336,3494,2444,3741,1351,3268,2795,4>>]>>,
    <<[yplusx |-> <<1552,1355,3699,2265,2880,1760,2139,1466,595,1715,1920,2592,2648,52,1594,3518,3884,2589,3529,3485,1851,1>>,
      yminusx |-> <<457,1744,2855,113,752,1793,1164,2156,2757,2955,2535,4026,470,2487,2066,1328,1938,987,2394,4031,3464,5>>,
      xy2d |-> <<735,1415,3838,241,2896,3090,2328,3395,2094,3429,88,942,2407,2284,3367,3694,793,2538,945,3281,1761,0>>],
    [yplusx |-> <<851,1456,670,2806,1835,1140,3332,632,2960,2720,1851,3058,1603,1129,2143,199,2835,2103,2701,1697,3898,7>>,
      yminusx |-> <<3875,358,367,2773,208,3044,2922,506,659,2275,3601,136,77,330,862,1022,614,3606,1318,1539,128,3>>,
      xy2d |-> <<11,984,2397,1091,2022,3951,493,3216,1365,2701,2453,1587,2348,773,3448,1676,126,1299,3374,4062,208,3>>],
    [yplusx |-> <<1872,2948,3688,2417,3252,3321,1211,1638,553,2391,2976,1042,762,615,3559,1480,2521,3160,849,132,1557,4>>,
      yminusx |-> <<947,291,2802,1233,89,2510,3149,3852,1934,3518,1819,2471,3913,2040,1304,1686,2152,153,44,322,2706,0>>,
      xy2d |-> <<46,2970,174,412,3216,2795,844,352,269,3185,3157,814,1433,22,3573,230,3582,3237,2197,210,3018,3>>],
    [yplusx |-> <<447,3264,1694,2283,3176,1785,1161,2660,941,3016,752,2558,3962,1525,3477,3234,577,3880,909,2880,3752,4>>,
      yminusx |-> <<676,1494,3132,795,240,1540,122,3327,2878,4040,1305,2900,783,2593,2109,2433,973,2289,3502,3565,1585,5>>,
      xy2d |-> <<514,3245,2801,1120,2797,2098,3310,2632,773,773,3910,421,2545,1108,375,2322,1123,714,84,147,1230,2>>],
    [yplusx |-> <<2949,3888,1533,2581,4047,2627,1838,867,1678,3953,1234,3972,1170,3558,100,2862,640,1268,1842,650,1177,5>>,
      yminusx |-> <<262,108,1533,2319,4072,3873,2064,1496,2101,3142,3765,2803,3724,4070,2056,2087,1867,109,650,3644,468,4>>,
      xy2d |-> <<2606,3809,1891,810,622,3759,4093,3365,1207,2334,2478,1238,383,957,3027,3011,3946,3535,3776,1645,2331,4>>],
    [yplusx |-> <<1185,3494,3792,1192,1520,1207,552,1662,3247,546,1261,1978,3963,1937,1187,2083,2919,24,183,2955,3318,4>>,
      yminusx |-> <<679,3747,3527,2835,2293,2441,1755,2017,2252,3423,2019,3476,3064,1324,2751,2752,1196,1518,200,909,2291,0>>,
      xy2d |-> <<957,423,409,2690,899,1964,524,3571,3073,635,939,1798,1143,440,3379,3091,2713,120,747,1192,781,5>>],
    [yplusx |-> <<3998,2475,1388,1844,3433,2054,168,1168,764,2043,37,2949,2255,300,3316,698,3419,3067,12,3710,3507,0>>,
      yminusx |-> <<2085,3988,225,867,76,1440,2899,2250,2086,727,2942,4088,3204,572,2083,3188,185,375,3856,1875,1514,6>>,
      xy2d |-> <<867,150,3810,4035,3430,1715,1483,1563,3199,3426,2689,945,836,1057,3588,251,475,3610,2337,3777,676,0>>],
    [yplusx |-> <<2399,3319,753,1558,1480,3887,3671,622,1561,2248,2065,855,3078,2129,292,370,4047,103,3564,693,1745,3>>,
      yminusx |-> <<2210,587,2619,601,3302,2949,4000,1114,2764,1399,1976,1795,2976,3720,3046,3276,2495,1920,274,965,3348,3>>,
      xy2d |-> <<1367,340,377,633,621,161,2106,4039,3932,3656,3285,2490,3863,3725,3510,875,2137,2690,2139,376,3829,2>>]>>,
    <<[yplusx |-> <<3921,1458,2864,3071,1774,2953,1430,2185,2221,3987,1491,3538,1749,3188,1325,3855,149,928,187,2089,1942,5>>,
      yminusx |-> <<3804,1418,3724,2420,1591,2628,65,2751,763,3826,2745,1816,2432,1390,1497,3608,2214,1082,2737,1935,3867,2>>,
      xy2d |-> <<257,526,778,2948,1818,1151,236,591,1421,2358,499,3821,3810,2694,1289,3319,993,682,1500,995,3524,7>>],
    [yplusx |-> <<1816,1001,3111,677,2680,2373,3837,1508,1689,1900,3637,2003,3875,81,3800,242,2713,3408,3458,2945,1103,0>>,
      yminusx |-> <<2499,2013,1416,1638,1430,1368,83,1211,2865,249,457,1947,3872,3982,141,3182,303,2252,1653,513,3831,7>>,
      xy2d |-> <<985,126,1449,396,479,1436,3171,3300,1821,2867,2391,2996,513,843,69,3239,3374,781,3996,2083,3961,7>>],
    [yplusx |-> <<1978,3928,104,511,2716,3558,200,5,2382,632,1800,1470,3565,1367,3993,971,1776,109,796,2820,1193,6>>,
      yminusx |-> <<1000,2897,2467,3363,820,3464,4008,2961,212,871,961,3027,1424,879,1345,299,2484,2125,983,55,2638,0>>,
      xy2d |-> <<2329,2002,347,3434,3763,850,2690,3411,1696,2895,1968,1492,2468,1080,1742,1813,1132,387,2766,2000,1818,0>>],
    [yplusx |-> <<1073,3604,544,853,3084,1052,337,155,1287,1625,1549,1523,157,434,1378,2479,1491,1909,1889,3023,3177,7>>,
      yminusx |-> <<2571,2171,2760,730,775,3821,1378,3066,2309,610,2817,1896,239,44,1072,3317,3740,3751,326,3271,3131,2>>,
      xy2d |-> <<2399,3714,2820,3454,2032,2000,243,757,2085,3505,1808,2445,1815,2609,425,3733,1309,2762,802,2471,3930,6>>],
    [yplusx |-> <<1214,3476,2979,3406,1833,2542,2223,2055,2368,2528,909,2496,1926,1956,1366,1106,2852,2259,238,2408,683,0>>,
      yminusx |-> <<1733,1052,3119,0,2977,2488,3835,207,2497,2551,4036,457,3269,1795,2631,1263,4042,1146,737,538,2382,4>>,
      xy2d |-> <<3482,3664,1501,2216,4004,1182,2466,251,590,2466,2337,3949,2334,477,2335,4000,2868,1131,3050,1900,2909,6>>],
    [yplusx |-> <<1314,1922,1822,1041,249,3390,2358,54,3700,3690,1777,3188,252,2605,2878,1032,318,3539,3075,2153,1787,1>>,
      yminusx |-> <<2452,205,3308,1366,2135,2984,29,1485,3183,1837,1892,2887,3906,328,361,2800,852,631,1669,831,2787,0>>,
      xy2d |-> <<2402,2912,1843,409,2190,818,3041,3466,692,4039,3620,3331,2449,3792,503,1153,117,1805,2959,3640,3969,3>>],
    [yplusx |-> <<2084,380,1375,2035,2779,2624,665,3444,963,2962,1908,3759,3064,2236,3134,3415,3133,3565,844,3629,2771,0>>,
      yminusx |-> <<4094,3482,3198,252,3985,1207,1415,582,2209,1483,1108,1136,2828,3364,2430,2691,2451,3920,260,252,81,5>>,
      xy2d |-> <<1181,1762,1331,252,3852,3478,463,3123,3609,1517,3188,4065,2542,0,1789,3885,3774,4001,3056,344,636,1>>],
    [yplusx |-> <<2420,1307,1198,2300,3746,2413,3582,1860,979,2455,2077,1162,1848,184,104,1572,3989,1661,2513,583,3800,4>>,
      yminusx |-> <<2466,2439,558,1988,1561,1151,2614,1324,3540,1197,2980,2764,2894,3092,319,2484,3944,3828,3335,3975,1358,3>>,
      xy2d |-> <<2421,3165,608,2898,3811,2959,432,3764,3836,850,3152,1619,2550,778,2220,2176,877,914,517,2349,45,3>>]>>,
    <<[yplusx |-> <<375,3599,1764,1787,3516,2354,3434,2635,3881,3611,2052,3950,2170,3399,2406,1505,96,621,3764,1525,3804,0>>,
      yminusx |-> <<2109,2626,700,3098,2067,3479,1597,2584,145,1583,1773,4008,616,2956,1980,2796,3660,458,1903,3387,229,1>>,
      xy2d |-> <<3687,3496,1619,3069,1107,1045,2550,586,3820,3521,1001,2210,855,944,1830,3064,2674,459,310,1733,1460,4>>],
    [yplusx |-> <<996,2046,3466,1245,3741,780,526,1894,1110,310,2219,2453,782,1979,2383,1205,2527,290,3890,174,3100,5>>,
      yminusx |-> <<4001,1271,3889,683,2368,1290,3316,2280,476,1407,1250,3048,936,1202,3029,475,315,3255,877,3066,375,2>>,
      xy2d |-> <<2959,1949,3322,443,1800,2867,3929,3109,286,1160,1888,584,3203,1625,2678,135,1467,2219,2173,403,2790,4>>],
    [yplusx |-> <<2947,1471,1176,2020,273,870,1585,1817,1578,3588,3068,2308,1061,1165,3124,2106,3428,2627,3675,1451,1384,7>>,
      yminusx |-> <<814,1098,2643,3946,3547,1928,2880,2881,2740,2190,125,214,2579,2420,235,1515,3587,3059,2839,3473,2560,1>>,
      xy2d |-> <<690,1567,1003,147,3734,1318,3913,3231,4008,976,2388,1622,2806,263,629,3575,1706,2830,1571,667,853,1>>],
    [yplusx |-> <<1022,744,3298,363,1479,3103,2437,3712,2841,702,3764,1194,1061,881,3494,3785,1555,2314,1301,3744,2418,5>>,
      yminusx |-> <<1304,3357,1965,3517,2288,273,287,3324,2184,2551,2967,1881,276,3847,737,2163,2561,3235,2661,2945,2485,7>>,
      xy2d |-> <<2065,2295,220,2754,4052,2688,3407,2756,660,2477,1178,67,822,1611,2861,3073,3035,1523,1424,2505,3966,4>>],
    [yplusx |-> <<2558,1321,3381,1091,456,3447,3050,3518,2844,3283,1675,2374,420,2543,585,2057,3528,1098,1185,3820,2370,1>>,
      yminusx |-> <<46,2067,3159,1211,615,246,3548,2202,3897,1312,1752,3484,1019,2789,2457,2242,3660,1592,2350,941,409,3>>,
      xy2d |-> <<2450,564,2478,1329,3500,2343,2622,206,3473,435,556,274,1340,2370,3300,1363,2677,3996,334,1619,2570,2>>],
    [yplusx |-> <<2362,455,3388,428,3894,956,1468,1443,3244,2539,2863,2666,2253,3738,2144,1550,2579,3745,2925,3129,1373,0>>,
      yminusx |-> <<1986,3986,4087,2359,3511,850,166,381,3846,1857,1755,2807,341,2593,755,1432,3565,1986,2148,3617,3318,4>>,
      xy2d |-> <<2998,2261,3266,551,281,2747,3583,1908,3772,3620,2311,712,1187,3310,3192,2691,1206,2722,1808,775,538,1>>],
    [yplusx |-> <<969,1864,3783,1811,1625,2813,2966,2946,119,3070,904,3021,151,561,3624,649,2715,3795,2668,2964,635,5>>,
      yminusx |-> <<2711,52,3743,1493,1243,734,1212,771,3081,1343,481,3387,1361,2329,1350,1120,1325,1038,3194,3190,831,3>>,
      xy2d |-> <<2094,1460,2713,2450,1597,21,2104,1763,124,93,1332,3470,3940,3554,53,1157,2551,2682,2848,105,2953,6>>],
    [yplusx |-> <<2935,3197,3253,4008,130,1364,1217,3187,1784,2152,3590,2647,1767,3487,1736,670,3023,1593,2215,3376,1139,0>>,
      yminusx |-> <<525,1794,354,2564,298,1256,1115,3986,2554,1448,1433,3824,114,3301,3524,4090,2931,1854,938,528,956,2>>,
      xy2d |-> <<3589,1417,1539,1938,2798,2348,3268,1133,530,1204,3883,2708,1537,1870,495,42,1050,67,4062,1851,47,1>>]>>,
    <<[yplusx |-> <<3226,1297,181,3502,692,106,4095,703,41,3206,1146,1059,1360,1503,3895,2433,301,1258,1498,3442,3947,3>>,
      yminusx |-> <<1478,1396,2943,2970,2840,2318,1990,1400,2798,936,2306,2810,3575,3490,1810,2930,317,1472,1514,2002,1625,3>>,
      xy2d |-> <<2220,1541,2832,2263,845,1527,1680,1788,1950,1029,3545,2354,514,3993,1784,1606,1744,1549,2522,3265,2942,7>>],
    [yplusx |-> <<2715,1999,423,1189,3502,1286,902,3706,1620,611,2946,2093,3885,3288,3071,155,2746,3932,1563,3526,958,0>>,
      yminusx |-> <<2317,1478,3177,883,2242,1767,656,100,3686,594,733,701,2785,1092,3396,2385,2390,1859,1537,2775,565,4>>,
      xy2d |-> <<1525,2199,3335,3248,600,2438,2546,2328,596,660,1097,1774,739,574,2740,2572,1697,3846,205,3627,3708,0>>],
    [yplusx |-> <<249,1207,4057,4077,3750,735,3258,3103,81,780,2545,2744,3887,2023,724,1160,3765,3790,906,1377,338,6>>,
      yminusx |-> <<1443,2248,2756,1603,1172,2780,313,966,3572,865,2301,1236,2793,3539,2839,157,1866,2886,3471,165,1646,6>>,
      xy2d |-> <<2829,1804,3656,3940,2747,1714,1419,2724,3312,1627,3533,2437,1512,2983,3662,2475,3812,333,213,3201,3851,7>>],
    [yplusx |-> <<928,1825,3443,2522,940,2440,1838,751,2234,3951,1951,1685,1004,3540,3630,785,2933,3162,3550,2311,3386,1>>,
      yminusx |-> <<879,3905,1062,1722,2304,859,48,1406,1694,1651,2189,962,3910,3476,2271,3260,3061,3821,3320,2267,3359,0>>,
      xy2d |-> <<476,3336,318,2355,2582,2059,2868,2129,4013,809,2857,540,771,960,2049,18,3555,447,1187,436,1,0>>],
    [yplusx |-> <<1884,170,2410,502,1622,1697,701,1413,604,3063,3521,1642,2681,2041,2269,282,38,2129,722,2186,985,6>>,
      yminusx |-> <<3084,3174,3135,2566,4063,3363,1549,1245,910,1038,349,1239,1678,898,907,1966,2017,2101,366,2265,2756,3>>,
      xy2d |-> <<814,3026,943,117,18,2096,2294,4061,3768,700,489,697,1255,2872,1641,3969,102,1674,2851,3410,1018,3>>],
    [yplusx |-> <<4072,556,196,3213,3372,3256,314,90,3963,692,3847,2646,3318,3694,3766,2623,482,167,3257,1372,3267,3>>,
      yminusx |-> <<3606,3649,1733,1180,1030,853,3959,819,1072,3974,1546,3700,773,3375,3324,2858,3239,1389,2466,3906,1728,1>>,
      xy2d |-> <<305,1001,912,2372,2486,3310,1591,1957,1227,2633,1208,2340,2746,2635,3281,3207,1384,2791,619,2804,798,6>>],
    [yplusx |-> <<3560,1792,2467,1883,2009,1316,2053,3631,1531,2060,370,1502,740,627,1423,1334,181,1528,3942,711,799,4>>,
      yminusx |-> <<3743,1647,218,65,1001,2667,1765,1729,2898,3540,901,3064,3833,1553,3479,3011,2485,2705,2846,1608,1433,5>>,
      xy2d |-> <<2841,2295,1157,1588,1538,1197,2641,2590,1327,2739,1812,2717,144,418,68,2192,2854,595,3985,1813,2820,7>>],
    [yplusx |-> <<2758,3691,196,3112,886,187,3483,1745,989,237,1175,3988,1291,1412,2709,2825,547,3294,2647,2767,2256,4>>,
      yminusx |-> <<3651,3946,2220,3026,1005,2888,3194,2005,3211,855,1158,708,2027,1691,71,3076,2111,3941,1474,1983,2483,5>>,
      xy2d |-> <<1649,2750,1149,622,1551,891,3898,1570,407,3354,1265,57,2454,2030,2254,1056,3035,1747,307,1049,1571,1>>]>>,
    <<[yplusx |-> <<1600,3896,1567,2509,3401,2573,1573,99,3011,3289,809,988,3543,35,728,1310,561,953,2592,1799,2597,4>>,
      yminusx |-> <<4086,615,3830,2461,2532,1083,3080,1858,2683,1836,375,3883,2468,1022,21,570,6,3333,3285,3582,3295,2>>,
      xy2d |-> <<3434,3950,2643,1640,2743,2578,368,477,600,1060,304,22,2786,1219,20,1024,2556,2276,3364,2198,1825,5>>],
    [yplusx |-> <<2638,3341,417,1289,2141,130,3646,2911,4007,2726,843,2363,403,1998,1303,1598,253,2819,4036,858,969,0>>,
      yminusx |-> <<2990,385,2045,1361,2926,2880,2403,699,671,550,1424,1122,518,3731,2492,1360,986,961,1270,3543,1934,5>>,
      xy2d |-> <<3133,688,1609,1900,2418,4041,517,3582,708,3276,3143,931,3426,2125,667,3533,1954,2188,2306,2741,3778,3>>],
    [yplusx |-> <<459,813,2478,928,1825,3418,1474,1039,2015,696,2319,2738,2078,3182,3748,186,3166,3514,3178,3942,3611,0>>,
      yminusx |-> <<3001,3463,3044,3367,416,3802,2330,1555,3563,2228,937,2488,971,3335,221,2458,2766,252,2592,3109,3541,2>>,
      xy2d |-> <<2174,712,2425,3422,683,1502,621,3257,24,32,3610,1521,2734,3291,2665,3067,3935,3720,858,1163,773,7>>],
    [yplusx |-> <<820,3438,2977,148,91,408,1343,147,375,1007,3007,1794,1570,3248,3846,1059,1501,1924,2008,551,2138,5>>,
      yminusx |-> <<2286,2699,971,1306,1077,364,351,2849,3869,2598,101,901,2956,1322,3919,1888,2250,475,2881,1091,67,3>>,
      xy2d |-> <<2402,3400,563,1528,394,2042,2085,3783,1205,2444,3942,1055,1854,2643,3695,2680,2079,3833,2384,632,1622,7>>],
    [yplusx |-> <<3997,2156,1002,1850,368,3534,1375,113,2999,2255,3642,2216,387,4035,999,1157,1558,319,1206,3912,2235,2>>,
      yminusx |-> <<2240,508,2517,3317,2243,3875,1718,80,765,3805,3995,232,2903,2554,3856,619,1702,2948,2241,1546,3905,3>>,
      xy2d |-> <<3196,310,3183,757,609,3055,3345,3949,263,3757,943,1779,990,3361,3738,1319,1885,2191,1409,3251,3705,1>>],
    [yplusx |-> <<385,3592,2293,1341,2025,3479,3550,665,3140,2640,1412,606,1605,200,3117,3526,756,3359,3385,2898,1930,4>>,
      yminusx |-> <<1009,3966,1006,876,308,3968,3600,4073,2687,2230,3202,3567,3321,3675,2312,2047,2097,947,2874,2385,1495,6>>,
      xy2d |-> <<345,1325,914,2637,1702,118,2760,2161,444,3550,4069,3222,1729,1034,3179,2946,532,530,282,1956,1752,1>>],
    [yplusx |-> <<1411,1248,725,3422,2980,4015,3481,747,4055,506,4066,1912,3817,1846,2754,1175,3550,1446,1914,181,3993,1>>,
      yminusx |-> <<533,102,2626,2021,957,3099,2596,197,973,2494,1927,2379,1785,2845,93,1404,3238,3896,357,1992,2296,2>>,
      xy2d |-> <<2006,3727,3355,1258,820,2298,2681,2766,235,485,637,3589,525,2533,1622,1916,3390,1238,339,766,1416,4>>],
    [yplusx |-> <<4068,966,2452,2450,2220,2605,914,2616,353,3999,949,2479,3784,315,2523,617,116,95,3300,2115,3535,7>>,
      yminusx |-> <<982,1944,3445,837,1641,2662,2577,378,3345,2926,3938,296,2142,1401,3352,2013,1757,623,2294,3675,2191,6>>,
      xy2d |-> <<704,1139,2122,3428,3216,2454,1586,3237,1021,532,469,3182,349,3129,3624,2875,2331,625,3699,1671,1849,6>>]>>,
    <<[yplusx |-> <<2752,193,3528,3273,1645,874,2212,435,3316,2565,1687,3452,1499,3049,3059,2686,3499,2023,1677,2959,3488,7>>,
      yminusx |-> <<1446,1383,1080,513,3960,3726,3497,2735,3888,1609,2978,2700,3295,1285,491,1229,179,1244,2589,1451,1553,4>>,
      xy2d |-> <<2678,2909,963,405,1039,2493,414,529,3955,2758,29,1430,3762,543,3168,60,2891,1652,3715,2183,2655,5>>],
    [yplusx |-> <<953,2660,928,653,3734,1609,800,3692,2816,3132,693,3779,3117,2199,770,2485,1804,3356,725,1966,995,4>>,
      yminusx |-> <<3345,2579,3952,28,3939,3144,3536,848,2069,3307,3791,2631,1212,3402,663,3952,1076,1233,1764,2917,1641,3>>,
      xy2d |-> <<307,2670,1773,1008,2174,3075,314,2458,3409,769,359,897,1574,3971,2776,3029,2494,3422,3407,3692,2593,6>>],
    [yplusx |-> <<739,2459,614,657,3905,30,3347,1800,2119,3376,3441,2827,386,3329,1074,805,2870,488,1792,432,1335,4>>,
      yminusx |-> <<1631,1134,2608,368,454,591,565,13,2602,1810,1368,2933,3202,968,3005,1693,3927,2399,417,3999,2155,5>>,
      xy2d |-> <<2315,3975,3422,136,1755,3674,2359,1552,220,1935,2130,1771,417,3366,841,2752,377,3666,1936,2819,3759,0>>],
    [yplusx |-> <<3613,1882,3599,2053,320,773,716,614,3043,47,3564,918,2706,494,3039,718,2995,1077,1221,820,1198,4>>,
      yminusx |-> <<1071,1152,311,1372,1541,281,2986,2080,486,2468,3105,1744,840,903,503,456,1633,44,1882,3270,154,3>>,
      xy2d |-> <<1006,2644,2491,2203,3314,1065,2417,1452,3741,1888,2803,1546,3987,3172,741,472,1935,2374,2943,545,725,6>>],
    [yplusx |-> <<2620,3959,1594,3394,1413,1239,2324,4078,2833,2791,3551,403,2551,2053,1648,2640,55,2338,899,2469,1266,1>>,
      yminusx |-> <<877,3337,3096,665,588,197,3098,2208,1388,1723,456,2147,2890,749,1285,2615,1378,1876,1212,4062,3086,5>>,
      xy2d |-> <<2037,2861,3109,2029,3953,1037,1328,2459,219,3991,545,1222,1005,2940,564,3497,2366,3808,3195,869,3698,5>>],
    [yplusx |-> <<830,139,1583,912,3475,3047,3890,3577,2533,2405,3419,3039,3998,2769,3901,2767,2487,1844,1483,85,178,7>>,
      yminusx |-> <<383,1810,1861,4032,1883,1461,1241,105,1885,1942,823,483,1049,3007,2615,2464,2748,2894,3143,260,2033,7>>,
      xy2d |-> <<3148,274,1365,316,3665,3291,2079,2472,570,2180,1894,948,3664,2133,1655,1094,74,100,3914,920,3636,0>>],
    [yplusx |-> <<2344,1201,2366,176,2195,1025,1014,1855,270,3646,3965,1494,825,3495,535,3907,3134,889,1738,3565,3978,6>>,
      yminusx |-> <<3560,3307,2366,557,1661,123,559,632,2113,2878,3337,1752,91,507,4006,1859,882,866,1674,83,3668,5>>,
      xy2d |-> <<666,2939,3581,291,832,2334,2738,2593,2017,1977,3656,2377,3558,47,1661,3993,3735,3389,3784,3698,2061,7>>],
    [yplusx |-> <<1906,3906,768,3759,1823,2726,3137,680,2858,1838,655,809,1847,3449,383,666,1958,2904,3378,3178,3567,1>>,
      yminusx |-> <<1980,2478,1288,2132,2786,96,3917,455,3791,2269,2104,283,2632,1296,3093,906,3300,2344,1649,2239,3762,0>>,
      xy2d |-> <<1447,1305,2799,3041,3931,3802,2837,2327,631,2241,3604,3490,2789,4023,503,665,2151,3538,3064,513,1661,4>>]>>,
    <<[yplusx |-> <<1961,1966,3414,3915,3102,3035,1176,3428,3250,1572,2111,1260,3103,3362,100,3649,1,900,1466,3162,3833,2>>,
      yminusx |-> <<4013,3828,2676,2329,1534,2601,776,3946,3052,2087,314,1968,2468,3376,3585,2404,1943,2620,3931,964,452,7>>,
      xy2d |-> <<1229,2535,1786,1759,1789,1963,3878,3658,2236,2087,3825,2448,495,3343,1459,2085,659,3167,912,2250,2677,5>>],
    [yplusx |-> <<3220,1565,2845,2328,3296,1640,304,2472,1606,3795,909,2733,4072,666,1704,3406,1087,925,2038,2050,2675,0>>,
      yminusx |-> <<1173,1122,217,625,695,58,3408,3415,1746,2700,2618,2172,180,3066,1024,3645,748,3767,1203,3620,3514,2>>,
      xy2d |-> <<460,4094,3927,1186,2063,1081,920,3608,3341,1648,3328,351,2555,1188,3135,261,1692,618,849,3238,1688,2>>],
    [yplusx |-> <<2318,989,3934,1794,3645,2146,595,3661,2328,1008,2718,2710,589,3936,1854,1511,818,4003,3146,1200,3072,3>>,
      yminusx |-> <<2680,2827,2098,792,1893,2238,3327,2341,503,387,3128,508,41,2330,2075,138,2823,3246,3145,988,4020,1>>,
      xy2d |-> <<2091,3915,3078,1130,2729,3897,1732,2688,1189,2600,1820,1144,1741,1532,806,1005,535,509,461,4048,2883,6>>],
    [yplusx |-> <<3827,1888,2110,1061,1479,2315,2745,3808,697,3525,3957,2339,1835,3104,1063,3057,2544,3853,3439,178,834,7>>,
      yminusx |-> <<1348,2428,2886,1492,1959,3068,4095,3568,2120,4063,2581,1925,2630,3770,2233,646,1812,1327,91,3441,2664,5>>,
      xy2d |-> <<3590,2129,2974,3948,3884,3146,568,3170,2323,1427,911,3895,2555,2409,2744,3496,3230,843,4074,1586,3509,3>>],
    [yplusx |-> <<1493,2434,386,2315,3657,2322,2697,1001,2951,3758,2285,1199,3184,916,61,3823,2830,3570,1173,2026,2329,5>>,
      yminusx |-> <<2520,1501,3063,3810,1134,2655,1881,918,502,379,781,1831,2462,788,721,447,3859,3445,3913,429,1074,0>>,
      xy2d |-> <<2734,3669,2532,1537,1249,3728,3986,2018,890,1972,1255,2474,3861,3094,3629,3196,3264,3440,500,4060,1514,4>>],
    [yplusx |-> <<493,3275,1231,1122,1550,2395,3075,3029,658,3516,2393,2076,3076,477,157,794,2368,1389,2653,3310,3955,3>>,
      yminusx |-> <<1835,1117,1408,24,2436,1302,3846,3314,2722,559,1612,732,2850,1622,2614,2369,2782,1581,2051,3772,2654,5>>,
      xy2d |-> <<3526,1256,266,3069,1959,923,2483,1100,126,1392,2750,2799,1367,2033,288,1548,2267,1569,294,2185,1541,2>>],
    [yplusx |-> <<1346,1902,3270,2275,3201,2772,3788,60,3219,1058,2142,2544,1042,3243,1996,3776,952,1092,178,4001,3565,0>>,
      yminusx |-> <<3844,1551,1667,74,2551,3909,486,1894,4062,3475,451,853,647,1841,2858,2097,3415,1557,3662,194,1197,5>>,
      xy2d |-> <<554,693,1464,1661,3643,3774,1473,2554,838,3862,822,2557,3777,3878,1234,2651,1032,1961,2727,2859,748,6>>],
    [yplusx |-> <<2164,2914,1711,643,519,2649,260,1950,3717,3285,2655,2580,1584,2780,3329,1450,3992,1635,117,981,401,6>>,
      yminusx |-> <<2877,338,609,1941,1517,3358,3543,237,1405,1571,329,1223,2411,3339,712,1864,2238,1645,2473,3985,3673,2>>,
      xy2d |-> <<474,803,1562,723,3526,1792,2,2370,2098,1141,3834,2380,3989,1299,2049,45,3420,3077,305,3114,3547,3>>]>>,
    <<[yplusx |-> <<2836,2411,551,1402,938,543,2010,2480,2743,939,3208,913,416,387,3042,3668,1529,800,2264,4019,3815,5>>,
      yminusx |-> <<1355,1516,2510,255,2780,217,3859,2242,2667,2498,1283,2385,248,3199,7,40,875,75,1196,2097,2198,7>>,
      xy2d |-> <<2702,1094,2881,4060,909,3989,2359,1076,3497,2767,2213,2247,1596,2258,3984,1130,3337,3232,3227,1587,464,6>>],
    [yplusx |-> <<991,4039,3320,651,3491,4042,55,2671,2397,2118,2542,2704,2242,3507,4020,1591,3036,103,3576,2754,2851,5>>,
      yminusx |-> <<1382,3506,1535,1171,884,2998,2920,1920,2953,3030,965,3776,1342,2053,2866,1777,2037,2797,2119,1533,3734,6>>,
      xy2d |-> <<635,2053,1006,2965,2770,2265,3693,4013,2474,2289,4072,2092,1294,65,279,231,3804,2397,2525,3003,2489,7>>],
    [yplusx |-> <<884,2551,3726,2010,409,365,2824,3323,760,810,2720,1520,3396,294,3258,3286,2100,3275,1546,276,2984,1>>,
      yminusx |-> <<1730,786,106,1364,2995,2366,2243,1676,936,1592,722,1960,1465,670,3172,1728,327,4050,2249,3861,101,5>>,
      xy2d |-> <<2388,1065,2828,1695,129,1655,3791,3446,172,1120,2785,1115,230,2215,2745,746,2802,2639,3672,3897,2433,3>>],
    [yplusx |-> <<4062,3686,1389,3578,2117,940,72,708,1280,1322,737,3939,1972,1596,737,3741,2917,3009,3804,1106,244,3>>,
      yminusx |-> <<2707,560,1369,2215,2299,1489,1780,1550,3945,360,1309,971,1193,1105,1449,936,253,2765,1797,131,2268,3>>,
      xy2d |-> <<1856,1881,709,632,1389,3272,3262,3993,1385,308,506,1255,234,1852,1276,2180,1129,1010,2649,2465,813,6>>],
    [yplusx |-> <<1191,200,493,4049,3849,939,3945,217,385,3847,2403,2167,1999,725,140,537,2978,3940,650,2015,2650,3>>,
      yminusx |-> <<2982,124,1464,1713,1723,3455,1264,3013,2015,572,2840,1648,3625,54,3479,2993,2647,3796,2119,3912,2852,0>>,
      xy2d |-> <<2759,446,3665,3403,3290,3885,1740,3794,117,1336,1444,2470,95,2544,3327,3609,3939,1153,1141,3956,1276,3>>],
    [yplusx |-> <<2712,3322,2936,474,1467,3882,2930,400,615,3802,3676,1544,2706,272,2505,2352,1200,2871,1071,2608,281,0>>,
      yminusx |-> <<1994,2422,3192,3588,407,2012,2374,909,3531,1812,2232,1530,1017,2088,3720,1373,1015,4006,1613,3521,3387,3>>,
      xy2d |-> <<1917,3105,3304,3465,1954,3094,1488,1673,1526,2522,102,2603,642,3675,1432,3926,2675,3616,493,2191,1728,5>>],
    [yplusx |-> <<3842,3896,3108,1530,2075,3029,780,2990,2558,190,169,2351,2767,40,361,2466,911,1424,1155,2026,907,0>>,
      yminusx |-> <<3607,2694,272,977,877,4003,1458,183,2098,3896,2263,664,1287,1890,1331,3985,2951,264,2969,1222,2407,0>>,
      xy2d |-> <<4088,790,409,3970,3918,1273,1933,3754,642,1181,1071,791,2799,2741,421,151,2917,1694,601,784,3678,6>>],
    [yplusx |-> <<546,102,3683,4016,772,1011,3258,2170,1673,848,1019,1562,3088,1912,2340,3025,1568,2104,977,2772,88,3>>,
      yminusx |-> <<1019,3673,1415,1583,364,1819,3390,3237,3550,2462,3401,998,1228,3585,449,2889,2984,2701,1929,276,2293,0>>,
      xy2d |-> <<976,1894,3557,255,572,259,3750,2594,3896,3133,2565,1273,3225,3034,1930,3036,3225,3645,1263,2554,1620,2>>]>>,
    <<[yplusx |-> <<1646,1014,2479,2132,2886,2653,2574,3860,3844,2044,2007,196,1210,3962,575,991,3205,3299,306,3582,2576,3>>,
      yminusx |-> <<2518,1727,1566,1444,1053,2071,1957,1911,1020,91,2339,3389,1140,2598,1396,3397,255,30,3172,3613,2342,1>>,
      xy2d |-> <<3744,380,2794,1256,127,4062,4033,929,1350,3409,303,3087,498,4051,802,373,3349,485,3462,3329,4001,1>>],
    [yplusx |-> <<1195,3577,209,2752,2268,3731,2061,3344,3037,1810,558,3622,3541,1007,1001,2033,485,2464,2286,3793,1020,7>>,
      yminusx |-> <<2098,1433,1149,1369,3200,524,341,895,1754,1125,30,2354,3589,1860,1783,2463,3891,1884,3178,1595,1845,7>>,
      xy2d |-> <<3251,313,2147,3728,1713,3280,62,3162,2663,2365,676,2195,3427,3210,1998,2263,3908,2148,27,1719,3906,1>>],
    [yplusx |-> <<1362,2578,2193,860,382,1903,3740,1397,339,1720,3767,1827,3483,1776,832,4008,1080,2686,2879,2993,2934,0>>,
      yminusx |-> <<3073,2321,3137,612,4041,606,556,378,1976,2619,2033,324,783,1727,1498,1415,144,795,1821,3922,3610,4>>,
      xy2d |-> <<923,2345,2431,3103,2232,1760,1195,3396,459,1655,1982,2049,2491,1593,1380,558,2389,1834,3767,3425,2925,7>>],
    [yplusx |-> <<711,29,2475,2751,1840,389,1083,1025,1756,4023,278,2856,203,1626,3262,2150,2814,4086,1435,2486,1018,5>>,
      yminusx |-> <<3474,3891,2128,3102,1965,3323,3285,1544,2639,2447,2937,1469,3580,3032,1581,2777,3919,466,3759,2492,62,7>>,
      xy2d |-> <<1109,2181,2452,3214,3092,3670,3796,1626,3430,933,388,1455,3286,1003,2999,385,3920,3169,1476,2366,2445,3>>],
    [yplusx |-> <<1010,3710,210,1990,903,2844,651,776,2720,842,2107,3859,926,3703,3622,643,1399,3120,2,2505,2460,6>>,
      yminusx |-> <<2291,3620,1843,3350,3147,1521,3850,347,647,2529,1725,55,267,3850,3980,3395,2835,401,3551,2485,944,5>>,
      xy2d |-> <<460,1135,857,2674,774,2015,1497,3278,2229,369,1426,3735,436,1144,3538,652,2311,3293,3183,3888,458,5>>],
    [yplusx |-> <<1223,2757,2584,3993,890,247,3251,3153,2268,823,1936,204,3297,820,2492,696,2458,3982,393,668,686,1>>,
      yminusx |-> <<10,1870,630,2676,1547,3898,2683,2583,1392,232,3171,588,3891,988,2134,885,3498,2111,2339,2722,1284,5>>,
      xy2d |-> <<463,208,2847,3084,2462,2794,1271,931,4044,3358,525,1250,156,541,2677,1372,1514,3770,2392,1278,4049,5>>],
    [yplusx |-> <<2958,2364,3775,4069,3138,1523,1110,877,2129,3578,2238,526,2114,2536,133,3599,296,605,1543,1017,3543,7>>,
      yminusx |-> <<2860,1114,3880,733,1500,2363,4073,167,433,2377,1542,3636,2,3428,2803,1242,1233,1607,3672,3878,2367,0>>,
      xy2d |-> <<2089,89,3688,591,269,3675,3875,3514,1650,1840,2421,2754,1111,939,1829,310,164,2887,3206,3019,3929,2>>],
    [yplusx |-> <<769,2332,182,3414,65,487,2023,2781,2879,513,1413,1368,307,1585,737,364,2225,130,3329,1507,2725,2>>,
      yminusx |-> <<863,369,665,2004,900,3448,3331,1383,287,441,429,2733,3703,3483,1864,2023,3914,1306,3630,2882,1112,5>>,
      xy2d |-> <<1103,116,1548,2350,3409,270,541,1860,3629,3156,1090,3206,3509,2095,2892,850,1636,1896,2698,4,1001,1>>]>>,
    <<[yplusx |-> <<1919,952,2329,12,2862,1723,3152,3597,2192,3642,4076,1609,1758,3075,951,3791,3610,3561,2200,64,3910,5>>,
      yminusx |-> <<3803,764,1411,2180,925,1591,3064,2790,1737,909,2042,4079,1871,3243,3085,811,1118,3022,2068,2024,915,7>>,
      xy2d |-> <<1165,1983,1577,1809,2307,843,104,3407,2850,3347,1705,3036,1686,1396,1813,3609,2101,3422,2193,2638,3320,2>>],
    [yplusx |-> <<2978,3334,3607,1159,3253,1714,25,917,2076,3363,36,2211,1431,2072,1436,3446,1270,3434,2193,2034,2671,7>>,
      yminusx |-> <<3943,272,1799,4056,3475,1174,2229,1987,2515,1216,1757,1704,627,1228,362,1995,2569,594,3672,3030,73,2>>,
      xy2d |-> <<3913,2478,3434,4056,3337,183,3513,1459,190,3814,1264,3069,414,709,437,1218,1053,1113,4037,2733,17,6>>],
    [yplusx |-> <<2192,3263,2050,3340,990,2726,3946,223,2250,3337,2555,3801,2486,4059,3338,1572,2846,832,1913,395,2510,6>>,
      yminusx |-> <<2108,2399,3535,2342,3943,1813,2192,1810,1377,2024,2940,1957,2447,3897,487,3434,2528,1583,2827,3265,4037,6>>,
      xy2d |-> <<2507,2439,2226,1362,495,2349,3728,3399,3644,426,733,565,2207,1057,3588,295,497,1808,2789,1715,1369,1>>],
    [yplusx |-> <<1226,1298,1662,785,2559,3568,1861,3484,1419,3649,1291,1390,3829,551,2941,658,312,2925,431,3620,2724,3>>,
      yminusx |-> <<2466,2327,575,925,1575,3316,1757,2429,561,2097,2815,328,1010,2901,2014,304,3546,1524,2171,886,3362,0>>,
      xy2d |-> <<1525,816,3882,907,3265,3122,2342,2606,3983,1411,2888,3374,1353,2597,2737,131,876,2170,3654,2726,764,3>>],
    [yplusx |-> <<3295,2172,807,2631,519,3971,995,3873,2312,3633,3607,2404,1549,3455,748,3419,3049,1536,1730,1587,1135,7>>,
      yminusx |-> <<2805,2009,3525,1768,3013,3879,189,2527,749,189,830,3658,751,3554,20,2732,2652,3030,3838,3740,1575,4>>,
      xy2d |-> <<1820,1737,1451,3892,3914,499,883,2452,2930,2190,3554,390,836,2208,2410,821,659,3430,126,368,2889,7>>],
    [yplusx |-> <<733,1338,2269,434,1076,1013,764,3572,91,377,1194,3983,3538,3476,1426,255,893,2253,4064,1568,3331,1>>,
      yminusx |-> <<100,2123,3243,4021,3461,322,956,2207,210,1921,3145,3296,2837,1095,2780,1142,3451,1103,1784,2615,555,1>>,
      xy2d |-> <<1364,2894,3490,812,514,2044,3352,277,3394,3343,2462,1949,3540,3047,2996,746,3148,1678,1323,191,711,0>>],
    [yplusx |-> <<737,2263,3909,811,3301,2906,1852,1995,2272,3702,1883,3038,3723,2382,3965,1388,2563,2883,1022,2430,2822,6>>,
      yminusx |-> <<4027,178,2909,3780,647,3242,2178,116,1936,1477,3137,2069,464,492,1190,3588,1504,2543,2624,1264,1587,2>>,
      xy2d |-> <<960,1578,2783,3844,1736,1499,3492,118,239,3840,2366,3370,2544,1412,3257,2505,4014,434,836,2036,3267,1>>],
    [yplusx |-> <<3769,3306,457,1391,1894,1709,1381,398,1528,1457,1052,563,1100,808,1832,622,2104,406,1839,1783,2612,3>>,
      yminusx |-> <<591,3187,2652,1381,143,549,1705,3664,1216,1564,2512,2753,3141,3509,2219,4017,330,2051,259,156,3176,6>>,
      xy2d |-> <<2760,3494,738,1297,725,3805,2129,2846,817,3024,745,1830,3782,3544,1862,2400,1488,3964,3950,441,1425,0>>]>>,
    <<[yplusx |-> <<2799,750,849,2767,841,1173,459,460,467,3092,3360,1672,2458,122,2060,577,3351,1202,454,3997,1374,5>>,
      yminusx |-> <<3771,3568,1013,2456,307,2764,3148,1298,1423,3895,448,2446,2995,160,275,719,3170,624,2474,3791,2876,6>>,
      xy2d |-> <<3336,1851,2619,1803,1703,195,4031,2618,3848,1198,610,1135,1033,2443,2047,1395,1181,2071,307,1246,1887,6>>],
    [yplusx |-> <<797,3499,2363,3949,303,4074,1325,2518,2063,605,1799,2376,2750,3897,3151,25,3139,3283,2178,1291,244,6>>,
      yminusx |-> <<764,376,875,1312,3628,2880,3459,1738,3201,2070,3684,115,2404,3478,3261,3341,1312,1612,1793,2527,985,1>>,
      xy2d |-> <<202,3676,801,1516,331,2592,2495,3441,2505,3254,79,570,1280,391,3868,1253,3200,3802,3669,3561,3078,1>>],
    [yplusx |-> <<2474,1750,255,692,4053,3007,73,3524,2840,1328,1844,2441,845,762,2652,1508,2605,811,3709,1784,2057,7>>,
      yminusx |-> <<1250,1004,1699,1965,2319,2281,3808,3042,2360,143,1382,1105,808,3158,323,2506,1549,731,4076,2209,3315,4>>,
      xy2d |-> <<3303,4005,1293,2726,170,2250,1351,1163,3626,3145,3065,1829,3,2007,2508,1264,2750,145,2598,2771,1852,3>>],
    [yplusx |-> <<2989,3547,2953,2703,446,3263,3758,1562,3260,3250,3387,2265,3995,2993,2215,2293,1670,298,2641,2029,340,2>>,
      yminusx |-> <<1404,3231,3458,1588,660,875,837,585,3553,3263,2591,3509,396,2868,3149,2537,2556,1089,2373,3901,64,0>>,
      xy2d |-> <<1747,1432,2557,3731,3837,205,2616,1296,3209,626,2548,411,2865,123,2980,2930,3572,596,842,163,853,6>>],
    [yplusx |-> <<2889,1351,1394,1412,3002,3593,1032,3628,1786,92,3571,3864,1844,1692,2298,1550,1658,2007,4010,698,2473,3>>,
      yminusx |-> <<3895,1692,3509,3438,1287,3606,1326,202,2480,2114,3351,3429,2923,2318,3072,3751,3921,3960,2010,1580,3818,3>>,
      xy2d |-> <<1870,2354,998,3185,3364,1881,3027,1677,1399,1592,2655,2873,2954,1550,597,1797,1229,3228,1637,1696,2115,6>>],
    [yplusx |-> <<124,513,2024,3377,3670,1617,2793,2112,2116,614,2757,4039,527,3171,161,3102,1138,1553,3217,1641,883,5>>,
      yminusx |-> <<3879,755,2080,862,3074,2827,2421,1615,226,1472,1735,577,908,3418,1257,2330,2553,2936,1674,3711,1974,1>>,
      xy2d |-> <<599,229,2970,330,3368,4037,2739,3228,132,2290,2704,492,2861,2181,2805,2812,3345,3975,1656,2906,3252,1>>],
    [yplusx |-> <<2023,2560,674,2726,2932,2838,455,3847,176,286,1011,3618,11,896,2020,1392,3756,3830,3458,4050,3520,2>>,
      yminusx |-> <<3180,1199,2873,3078,1636,2843,2655,2445,3620,2189,1036,3459,3018,356,3331,1272,1186,1859,2270,3239,779,3>>,
      xy2d |-> <<1102,407,1041,4088,2094,585,1863,688,3734,1685,3065,1343,4041,1275,2753,3160,3317,2545,2870,3041,3121,3>>],
    [yplusx |-> <<626,3252,1017,3017,360,2444,3803,3196,287,2951,2734,2263,1196,2723,3666,2032,1467,2005,2430,3088,462,4>>,
      yminusx |-> <<2798,2376,3336,2148,244,1787,2588,2331,2542,3521,2055,2581,1708,2794,1485,1943,1211,1581,834,1553,779,3>>,
      xy2d |-> <<138,1752,1954,413,1942,1759,3605,473,1182,509,1979,3570,2977,1741,1987,1853,1917,647,2335,1229,1716,2>>]>>,
    <<[yplusx |-> <<899,1840,866,3881,439,718,2698,3772,2559,1319,1099,305,4052,2219,3191,3503,271,1830,1180,257,3563,7>>,
      yminusx |-> <<1141,903,1935,1156,496,965,3787,2507,3316,1499,1458,517,2463,1101,2834,2474,1494,266,3100,2534,3184,2>>,
      xy2d |-> <<3706,1646,2695,2806,2914,236,973,1365,3076,3262,1382,3659,3851,896,1,1416,746,718,4086,2281,2278,0>>],
    [yplusx |-> <<761,2959,1290,157,3885,3570,2339,3157,397,2962,2476,1739,886,615,3892,1192,2549,3953,1848,957,3249,4>>,
      yminusx |-> <<173,3091,2635,1280,1197,2499,3028,976,2889,909,3725,2203,10,2437,3133,2597,2825,2979,2030,1016,3871,2>>,
      xy2d |-> <<1610,347,1509,2247,1924,911,2704,3508,442,2384,165,437,3957,1011,3377,3104,3816,2786,960,3637,2465,1>>],
    [yplusx |-> <<3517,2411,3541,1836,1057,1035,3836,2446,1347,3588,1427,155,1089,1147,339,2555,3636,1642,2306,3385,875,7>>,
      yminusx |-> <<1475,4000,186,1878,3356,1559,1374,3182,160,3610,947,1607,214,396,663,3637,1158,195,450,1713,340,4>>,
      xy2d |-> <<948,843,147,725,1363,1848,357,1544,331,4049,1350,2103,604,772,3935,3269,2908,2042,696,2394,290,4>>],
    [yplusx |-> <<2758,2366,482,1318,3685,3506,940,531,515,1449,2948,2454,2304,3255,2421,1120,3456,1453,3353,3000,1888,0>>,
      yminusx |-> <<1769,2029,2293,2488,2505,593,2248,1759,2854,2364,851,3367,778,315,3634,1486,3636,722,2997,1342,1249,1>>,
      xy2d |-> <<394,3688,1997,417,318,2116,2464,3798,3497,342,343,3275,1738,2292,3878,715,1522,940,3011,3049,2868,6>>],
    [yplusx |-> <<723,1823,1381,1686,508,1953,3699,1328,2117,3230,1478,1283,1278,2605,2791,3635,779,1757,1582,3195,441,0>>,
      yminusx |-> <<178,1932,1082,758,991,1999,3586,3874,1822,1001,844,2906,2497,1508,3356,3783,3373,557,3849,3096,18,2>>,
      xy2d |-> <<3369,3209,1370,1374,2059,1592,167,1114,1055,2098,3860,1729,743,3580,1775,979,3560,1210,2126,1463,2223,0>>],
    [yplusx |-> <<3147,3266,649,333,627,2270,1815,2600,3345,3659,3659,1612,2611,3439,1320,397,622,3480,1455,3101,1059,6>>,
      yminusx |-> <<1331,498,3208,2461,2100,2914,803,1913,1498,82,1181,1055,1844,4022,2781,2199,1677,929,278,2519,695,3>>,
      xy2d |-> <<874,4043,2541,3981,3205,3996,1765,884,655,3020,3362,3388,2533,911,3555,3657,3532,994,3009,1519,2058,4>>],
    [yplusx |-> <<543,3298,1090,1230,1633,651,1337,1216,3532,409,878,3040,3100,2637,4020,1635,3590,456,1897,468,1203,2>>,
      yminusx |-> <<113,1570,2817,3696,2897,3152,3503,2225,1487,2896,3334,2748,3930,1566,2992,710,3889,2939,12,630,1962,4>>,
      xy2d |-> <<2243,351,3520,494,2644,1986,2367,1990,3710,2639,1553,1933,3746,308,3942,3850,148,3546,3348,1413,1115,5>>],
    [yplusx |-> <<481,2866,227,3661,516,2390,3870,655,890,2726,3643,3033,2969,4053,3279,176,113,3213,3684,3523,3362,4>>,
      yminusx |-> <<2575,3395,3744,629,1983,3046,3054,137,3636,3688,3757,3698,1145,1229,2323,1064,1108,2981,818,3996,3938,0>>,
      xy2d |-> <<3897,949,2518,1624,3252,1567,3023,1404,2623,2790,1372,4000,1338,3369,2754,4075,1078,881,2614,2561,3087,1>>]>>,
    <<[yplusx |-> <<2640,2358,3724,688,2312,2918,2757,3101,53,3226,1273,2915,1247,1356,1854,1787,320,700,2845,1049,5,4>>,
      yminusx |-> <<3583,2371,1570,75,710,2573,4019,1100,3790,2251,2236,2151,1920,3897,1359,1490,1727,458,3899,1556,4003,0>>,
      xy2d |-> <<752,3048,3513,4075,3,2314,1196,932,431,2204,3616,4008,2388,2321,2463,3972,2882,1034,2799,536,4026,1>>],
    [yplusx |-> <<404,1968,1086,1392,3902,2036,2735,141,3822,467,424,3567,2524,2745,2502,3203,469,1910,1023,1489,3155,6>>,
      yminusx |-> <<1342,3215,2298,2372,2900,1050,1591,1978,2202,3950,385,1504,3115,2006,3436,1871,3650,3206,2728,940,2350,3>>,
      xy2d |-> <<1455,2211,2366,846,3261,356,2024,1416,324,120,2862,2826,666,1903,412,403,315,172,1237,2046,1505,2>>],
    [yplusx |-> <<423,3858,1398,2047,351,3641,3463,764,551,1187,1731,3666,3355,3556,2607,3275,2459,1688,3977,2088,3002,6>>,
      yminusx |-> <<1654,79,1822,2493,2600,2384,527,3428,3154,2273,2848,506,1129,2819,1752,1304,849,2555,1066,1300,1367,2>>,
      xy2d |-> <<2305,4067,1680,3014,721,3422,2426,2569,2584,2900,1100,1549,3972,330,3433,2417,3044,1719,3967,1284,1437,5>>],
    [yplusx |-> <<1789,3366,2038,2334,3144,441,1912,48,411,1098,2823,3619,97,470,2191,2179,1294,1213,821,2666,574,1>>,
      yminusx |-> <<1237,3765,2227,2103,1907,1994,1340,2645,870,1693,2589,11,2344,1583,1743,162,535,2019,1408,301,427,0>>,
      xy2d |-> <<3478,3634,65,393,397,1153,344,3459,962,3806,2489,1117,2098,1821,2882,490,340,394,713,1566,2617,4>>],
    [yplusx |-> <<3870,563,1267,3428,807,352,3312,847,1550,2466,2377,2967,730,367,1447,2107,287,3393,3483,3818,2220,6>>,
      yminusx |-> <<2976,3691,248,958,476,167,4067,2031,2100,3311,2774,1142,314,1534,578,2713,1891,475,1019,3022,3286,2>>,
      xy2d |-> <<528,3452,3827,3216,2228,195,3332,2938,3620,2278,816,994,2023,3867,217,902,1431,143,1461,1549,2391,5>>],
    [yplusx |-> <<1936,34,3069,3262,2090,1544,343,3137,773,2803,1161,1855,3380,3639,1170,1631,2603,1301,3924,3165,3250,2>>,
      yminusx |-> <<919,2726,260,3070,297,3254,2044,2634,8,2400,2191,2373,3472,2199,3008,1016,425,2857,3804,2627,159,7>>,
      xy2d |-> <<2762,4050,3171,1496,2826,4094,2382,742,358,700,2770,2819,2251,1775,1011,626,799,3201,3312,670,240,7>>],
    [yplusx |-> <<185,267,2654,2810,2666,2706,1050,3824,880,3850,3960,3425,2618,1914,3835,1907,2529,1213,679,2650,1260,4>>,
      yminusx |-> <<3635,3795,814,123,1555,3700,1409,2629,3891,66,1710,54,2399,3377,1097,3220,2136,788,2668,1496,2941,0>>,
      xy2d |-> <<1347,2397,635,1155,1492,466,1039,2611,768,3384,2928,3154,225,454,3155,3553,2532,2014,300,581,1826,2>>],
    [yplusx |-> <<1532,2711,2626,3000,3963,1419,3491,2410,2423,1475,2188,2724,3565,1788,4039,3623,166,3010,2038,1533,2419,1>>,
      yminusx |-> <<1070,3155,3913,2346,2748,3329,1786,2862,2065,3821,2559,1250,3272,2271,652,3834,1347,1228,2212,3569,437,1>>,
      xy2d |-> <<614,3204,66,2317,939,2030,2388,2033,3599,2120,2539,2427,1444,3334,929,592,2399,3576,401,2321,4079,0>>]>>>>

\* FieldElement::double_square: twice the square
fe_twice(a) == fe_add(a, a)

fe_double_square(a) == fe_twice(fe_square(a))

\* GeP1::from_sum: a + b for b in cached form
GeP1_from_sum_of(yplus, yminus, t, sumx) ==
    [x |-> fe_sub(yplus, yminus), y |-> fe_add(yplus, yminus),
     z |-> fe_add(sumx, t), t |-> fe_sub(sumx, t)]

GeP1_from_sum(a, b) ==
    GeP1_from_sum_of(fe_mul(fe_add(a.y, a.x), b.yplusx), fe_mul(fe_sub(a.y, a.x), b.yminusx),
                     fe_mul(b.t2d, a.t), fe_twice(fe_mul(a.z, b.z)))

\* GeP1::from_mixed_sum: a + b for b a table entry
GeP1_from_mixed_sum(a, b) ==
    GeP1_from_sum_of(fe_mul(fe_add(a.y, a.x), b.yplusx), fe_mul(fe_sub(a.y, a.x), b.yminusx),
                     fe_mul(b.xy2d, a.t), fe_add(a.z, a.z))

\* GeP1::from_difference: a - b for b in cached form
GeP1_from_difference_of(yplus, yminus, t, sumx) ==
    [x |-> fe_sub(yplus, yminus), y |-> fe_add(yplus, yminus),
     z |-> fe_sub(sumx, t), t |-> fe_add(sumx, t)]

GeP1_from_difference(a, b) ==
    GeP1_from_difference_of(fe_mul(fe_add(a.y, a.x), b.yminusx),
                            fe_mul(fe_sub(a.y, a.x), b.yplusx),
                            fe_mul(b.t2d, a.t), fe_twice(fe_mul(a.z, b.z)))

\* GeP1::from_mixed_difference: a - b for b a table entry
GeP1_from_mixed_difference(a, b) ==
    GeP1_from_difference_of(fe_mul(fe_add(a.y, a.x), b.yminusx),
                            fe_mul(fe_sub(a.y, a.x), b.yplusx),
                            fe_mul(b.xy2d, a.t), fe_add(a.z, a.z))

GeP2_ONE == [x |-> fe_ZERO, y |-> fe_ONE, z |-> fe_ONE]

GeP2_from_gep1(g) == [x |-> fe_mul(g.x, g.t), y |-> fe_mul(g.y, g.z), z |-> fe_mul(g.z, g.t)]

GeP2_from_gep3(g) == [x |-> g.x, y |-> g.y, z |-> g.z]

\* GeP2::double
GeP2_double_of(xx, yy, b, aa) ==
    [x |-> fe_sub(aa, fe_add(yy, xx)), y |-> fe_add(yy, xx),
     z |-> fe_sub(yy, xx), t |-> fe_sub(b, fe_sub(yy, xx))]

GeP2_double(self) ==
    GeP2_double_of(fe_square(self.x), fe_square(self.y), fe_double_square(self.z),
                   fe_square(fe_add(self.x, self.y)))

\* the encoding of the affine point (x, y): y with the sign of x in bit 255
ge_encoded(y_bytes, sign_bit) ==
    SubSeq(y_bytes, 1, 31) \o <<Xor8(y_bytes[32], 128 * sign_bit)>>

ge_to_bytes_of(self, recip) ==
    ge_encoded(fe_to_bytes(fe_mul(self.y, recip)), fe_is_negative(fe_mul(self.x, recip)))

GeP3_ONE == [x |-> fe_ZERO, y |-> fe_ONE, z |-> fe_ONE, t |-> fe_ZERO]

\* GeP3::double
GeP3_double(self) == GeP2_double(GeP2_from_gep3(self))

\* GeP3::from_gep1
GeP3_from_gep1(g) ==
    [x |-> fe_mul(g.x, g.t), y |-> fe_mul(g.y, g.z),
     z |-> fe_mul(g.z, g.t), t |-> fe_mul(g.x, g.y)]

\* GeCached::from_p3
GeCached_from_p3(g) ==
    [yplusx |-> fe_add(g.y, g.x), yminusx |-> fe_sub(g.y, g.x), z |-> g.z,
     t2d |-> fe_mul(g.t, D2)]

GePrecomp_ONE == [yplusx |-> fe_ONE, yminusx |-> fe_ONE, xy2d |-> fe_ZERO]

\* the table entry selected for the absolute value babs at position pos
GePrecomp_selected(pos, babs) ==
    IF babs \in 1..8 THEN BASE[pos + 1][babs] ELSE GePrecomp_ONE

GePrecomp_negated(t) == [yplusx |-> t.yminusx, yminusx |-> t.yplusx, xy2d |-> fe_neg(t.xy2d)]

\* GePrecomp::select: b * 256^pos * B for a digit b in -8..8
GePrecomp_select(pos, b) ==
    IF b < 0 THEN GePrecomp_negated(GePrecomp_selected(pos, 0 - b))
    ELSE GePrecomp_selected(pos, b)

\* GeP3::decompress up to the call of pow22523: y, u = y^2 - 1, v = d * y^2 + 1, v^3 and
\* the value raised to the power
decompress_started(y, u, v, v3, sign) ==
    [y |-> y, u |-> u, v |-> v, v3 |-> v3, sign |-> sign,
     x |-> fe_mul(fe_mul(fe_square(v3), v), u)]

decompress_uv(y, u, v, sign) == decompress_started(y, u, v, fe_mul(fe_square(v), v), sign)

decompress_y(y, yy, sign) ==
    decompress_uv(y, fe_sub(yy, fe_ONE), fe_add(fe_mul(yy, D), fe_ONE), sign)

decompress_begin(s) ==
    Let2(LAMBDA y, yy : decompress_y(y, yy, s[32] \div 128),
         fe_from_bytes(s), fe_square(fe_from_bytes(s)))

\* decompress that returns the root whose sign is the sign bit of the encoding
decompress_signed_as_encoded(x, y, sign) ==
    IF fe_is_negative(x) = sign
    THEN [point |-> [x |-> x, y |-> y, z |-> fe_ONE, t |-> fe_mul(x, y)], ok |-> 0]
    ELSE [point |-> [x |-> fe_neg(x), y |-> y, z |-> fe_ONE, t |-> fe_mul(fe_neg(x), y)],
          ok |-> 0]

\* GeP3::decompress after pow22523: the sign, h.x = -h.x when is_negative equals the sign
\* bit, so that the point returned is the negative of the point encoded
decompress_signed(x, y, sign) ==
    IF fe_is_negative(x) = sign
    THEN [point |-> [x |-> fe_neg(x), y |-> y, z |-> fe_ONE, t |-> fe_mul(fe_neg(x), y)],
          ok |-> 0]
    ELSE [point |-> [x |-> x, y |-> y, z |-> fe_ONE, t |-> fe_mul(x, y)], ok |-> 0]

\* the two checks of the root
decompress_checked(x, y, u, vxx, sign) ==
    IF fe_is_non_zero(fe_sub(vxx, u)) = 1
    THEN IF fe_is_non_zero(fe_add(vxx, u)) = 1
         THEN [point |-> [x |-> x, y |-> y, z |-> fe_ONE, t |-> fe_ZERO], ok |-> -1]
         ELSE decompress_signed(fe_mul(x, SQRTM1), y, sign)
    ELSE decompress_signed(x, y, sign)

decompress_root(g, x) == decompress_checked(x, g.y, g.u, fe_mul(fe_square(x), g.v), g.sign)

decompress_end(g, power) ==
    IF Len(power) = Len(g.x) THEN decompress_root(g, fe_mul(fe_mul(power, g.v3), g.u))
    ELSE decompress_root(g, power)

\* GeP3::from_scalar_mul: the 64 digits of the scalar in radix 16, in -8..8
radix16_nibble(a, i) ==
    IF i % 2 = 0 THEN a[(i \div 2) + 1] % 16 ELSE a[(i \div 2) + 1] \div 16

radix16_carried(s, v) ==
    [a |-> s.a, e |-> Append(s.e, v - (16 * ((v + 8) \div 16))), carry |-> (v + 8) \div 16]

radix16_at(s, i) ==
    radix16_carried(s, radix16_nibble(s.a, i) + s.carry)

radix16_last(s) == Append(s.e, radix16_nibble(s.a, 63) + s.carry)

radix16(bytes) ==
    radix16_last(FoldStrict(radix16_at, [a |-> bytes, e |-> <<>>, carry |-> 0], 0, 62))

from_scalar_mul_add(h, pos, digit) ==
    GeP3_from_gep1(GeP1_from_mixed_sum(h, GePrecomp_select(pos, digit)))

\* the call at its first loop: the digits, the point h and the iterations done
from_scalar_mul_begin(a) == [e |-> radix16(a), h |-> GeP3_ONE, n |-> 0]

\* one iteration: 32 of the loop of the odd digits, 4 doublings, 32 of the even digits
from_scalar_mul_step(m) ==
    [m EXCEPT !.n = m.n + 1,
              !.h = IF m.n < 32 THEN from_scalar_mul_add(m.h, m.n, m.e[(2 * m.n) + 2])
                    ELSE IF m.n < 36 THEN GeP3_from_gep1(GeP2_double(GeP2_from_gep3(m.h)))
                    ELSE from_scalar_mul_add(m.h, m.n - 36, m.e[(2 * (m.n - 36)) + 1])]

from_scalar_mul_done(m) == m.n = 68

\* GeP3::double_scalar_mul: the odd multiples 1, 3, .. 15 of self in cached form
RECURSIVE double_scalar_mul_ai_from(_, _, _)
double_scalar_mul_ai_from(a2, ai, j) ==
    IF Len(ai) = 8 THEN ai
    ELSE double_scalar_mul_ai_from(
             a2, Append(ai, GeCached_from_p3(GeP3_from_gep1(GeP1_from_sum(a2, ai[j])))), j + 1)

double_scalar_mul_ai(self) ==
    double_scalar_mul_ai_from(GeP3_from_gep1(GeP3_double(self)), <<GeCached_from_p3(self)>>, 1)

double_scalar_mul_a(t, asi, ai) ==
    IF asi > 0 THEN GeP1_from_sum(GeP3_from_gep1(t), ai[(asi \div 2) + 1])
    ELSE IF asi < 0 THEN GeP1_from_difference(GeP3_from_gep1(t), ai[((0 - asi) \div 2) + 1])
    ELSE t

double_scalar_mul_b(t, bsi) ==
    IF bsi > 0 THEN GeP1_from_mixed_sum(GeP3_from_gep1(t), BI[(bsi \div 2) + 1])
    ELSE IF bsi < 0 THEN GeP1_from_mixed_difference(GeP3_from_gep1(t), BI[((0 - bsi) \div 2) + 1])
    ELSE t

double_scalar_mul_added(t, asi, bsi, ai) ==
    GeP2_from_gep1(double_scalar_mul_b(double_scalar_mul_a(t, asi, ai), bsi))

\* the call at its loop: the two slid scalars, the table, r and the position, from 255 down
double_scalar_mul_begin(self, a, b) ==
    [aslide |-> slide(a), bslide |-> slide(b), ai |-> double_scalar_mul_ai(self),
     r |-> GeP2_ONE, started |-> FALSE, i |-> 255]

\* one iteration of the loop
double_scalar_mul_at(m, asi, bsi) ==
    IF ~ m.started /\ asi = 0 /\ bsi = 0 THEN [m EXCEPT !.i = m.i - 1]
    ELSE [m EXCEPT !.i = m.i - 1, !.started = TRUE,
                   !.r = double_scalar_mul_added(GeP2_double(m.r), asi, bsi, m.ai)]

double_scalar_mul_step(m) == double_scalar_mul_at(m, m.aslide[m.i + 1], m.bslide[m.i + 1])

double_scalar_mul_done(m) == m.i < 0

-----------------------------------------------------------------------------
(* keys/x25519/core.rs: exchange, on the field of signatures/ed25519.       *)

\* FieldElement::swap
fe_swap_left(a, b, condition) == IF condition = 1 THEN b ELSE a

\* the clamping of the private scalar
exchange_clamped(private) ==
    <<And8(private[1], 248)>> \o SubSeq(private, 2, 31)
        \o <<Or8(And8(private[32], 127), 64)>>

\* exchange up to the inversion of 1 - x1: the scalar, x1 as decoded and x1 + 1
exchange_begin(private, public) ==
    [e |-> exchange_clamped(private), x1 |-> fe_from_bytes(public),
     tmp0 |-> fe_add(fe_from_bytes(public), fe_ONE)]

\* the variables before the loop: z3_loop is the z3 declared inside the loop body
ladder_begin(e, x1) ==
    [e |-> e, x1 |-> x1, x2 |-> fe_ONE, z2 |-> fe_ZERO, x3 |-> x1, z3 |-> fe_ONE,
     z3_loop |-> fe_ZERO, swap |-> 0, pos |-> 254]

\* the bit pos of the scalar
ladder_bit(e, pos) == (e[(pos \div 8) + 1] \div (2 ^ (pos % 8))) % 2

\* x2.swap(&mut x3, condition) and z2.swap(&mut z3, condition)
ladder_swap(l, condition) ==
    [l EXCEPT !.x2 = fe_swap_left(l.x2, l.x3, condition),
              !.x3 = fe_swap_left(l.x3, l.x2, condition),
              !.z2 = fe_swap_left(l.z2, l.z3, condition),
              !.z3 = fe_swap_left(l.z3, l.z2, condition)]

\* the head of the body: swap ^= b, the two swaps, swap = b
ladder_swapped(l, b) == [ladder_swap(l, (l.swap + b) % 2) EXCEPT !.swap = b]

\* the last statements of the body: z3 here is the variable declared by let in the body,
\* the z3 of the function is not assigned
ladder_last(l, x3, z2, x2, tmp0, tmp1) ==
    [l EXCEPT !.x2 = x2, !.x3 = x3,
              !.z2 = fe_mul(tmp1, fe_add(tmp0, fe_mul121666(tmp1))),
              !.z3_loop = fe_mul(l.x1, z2),
              !.pos = l.pos - 1]

ladder_squares(l, z3_new, z2_new, tmp0, tmp1) ==
    ladder_last(l, fe_square(fe_add(z3_new, z2_new)), fe_square(fe_sub(z3_new, z2_new)),
                fe_mul(tmp1, tmp0), tmp0, fe_sub(tmp1, tmp0))

ladder_products(l, tmp0, tmp1, x2, z2) ==
    ladder_squares(l, fe_mul(tmp0, x2), fe_mul(z2, tmp1), fe_square(tmp1), fe_square(x2))

ladder_body(l) ==
    ladder_products(l, fe_sub(l.x3, l.z3), fe_sub(l.x2, l.z2), fe_add(l.x2, l.z2),
                    fe_add(l.x3, l.z3))

\* one iteration of the loop
ladder_step(l) == ladder_body(ladder_swapped(l, ladder_bit(l.e, l.pos)))

ladder_done(l) == l.pos < 0

\* the swaps after the loop
ladder_end(l) == ladder_swap(l, l.swap)

\* an exchange that returns the coordinate decoded from the public key
exchange_output_of_x1(l, recip) == fe_to_bytes(l.x1)

\* the value returned: x2 * z2.invert()
exchange_output(l, recip) == fe_to_bytes(fe_mul(l.x2, recip))

-----------------------------------------------------------------------------
(* keys/ed25519/core.rs: generate_keypair, sign, verify and exchange as the *)
(* steps of one caller.  keys.pc is the place of the caller: "idle" between *)
(* calls, the name of a loop while it runs, or the place a call returns to  *)
(* (keys.ret) once its loop has ended.                                      *)

\* the seeds the generator may deliver and the messages signed
KeySeeds ==
    {<<0, 0, 0, 0, 0, 0, 0, 0, 0, 0, 0, 0, 0, 0, 0, 0,
       0, 0, 0, 0, 0, 0, 0, 0, 0, 0, 0, 0, 0, 0, 0, 0>>,
     <<1, 2, 3, 4, 5, 6, 7, 8, 9, 10, 11, 12, 13, 14, 15, 16,
       17, 18, 19, 20, 21, 22, 23, 24, 25, 26, 27, 28, 29, 30, 31, 255>>}

Messages == {<<>>, <<97, 98, 99>>}

\* the two uses of the keys made by the tests: a signature made and verified, then
\* altered and verified again; an exchange between two keypairs in both directions
Uses == {"signature", "exchange"}

KeypairsOf(use) == IF use = "signature" THEN 1 ELSE 2

None == <<>>

InitKeys ==
    /\ IdleBut("keys")
    /\ \E use \in Uses :
         keys = [phase |-> "keys", use |-> use, pc |-> "idle", ret |-> "idle", who |-> 0,
                 seeds |-> <<>>, pairs |-> <<>>, message |-> None, signature |-> None,
                 altered |-> FALSE, verdicts |-> <<>>, shared |-> <<>>,
                 hash |-> None, mul |-> None, chain |-> None, dsm |-> None,
                 ladder |-> None, tmp |-> None]

KeysAt(pc) == keys.phase = "keys" /\ keys.pc = pc

\* a call of sha512 begins; its rounds run next and the caller goes on at ret
CallSha512(k, input, ret) ==
    [k EXCEPT !.hash = sha512_begin(input), !.pc = "sha512", !.ret = ret]

CallFromScalarMul(k, a, ret) ==
    [k EXCEPT !.mul = from_scalar_mul_begin(a), !.pc = "from_scalar_mul", !.ret = ret]

CallChain(k, statements, self, ret) ==
    [k EXCEPT !.chain = fe_chain_begin(statements, self), !.pc = "chain", !.ret = ret]

\* sha512: one round; after the last round of the last block the caller goes on
Sha512To(new) ==
    keys' = [keys EXCEPT !.hash = new,
                         !.pc = IF sha512_done(new) THEN keys.ret ELSE "sha512"]

Sha512Round ==
    /\ KeysAt("sha512")
    /\ Sha512To(sha512_step(keys.hash))
    /\ UnchangedBut("keys")

\* GeP3::from_scalar_mul: one iteration of one of its three loops
FromScalarMulTo(new) ==
    keys' = [keys EXCEPT !.mul = new,
                         !.pc = IF from_scalar_mul_done(new) THEN keys.ret
                                ELSE "from_scalar_mul"]

FromScalarMulStep ==
    /\ KeysAt("from_scalar_mul")
    /\ FromScalarMulTo(from_scalar_mul_step(keys.mul))
    /\ UnchangedBut("keys")

\* FieldElement::invert and pow22523: one squaring or one product
ChainTo(new) ==
    keys' = [keys EXCEPT !.chain = new,
                         !.pc = IF fe_chain_done(new) THEN keys.ret ELSE "chain"]

ChainStep ==
    /\ KeysAt("chain")
    /\ ChainTo(fe_chain_step(keys.chain))
    /\ UnchangedBut("keys")

\* GeP3::double_scalar_mul: one iteration of its loop
DoubleScalarMulTo(new) ==
    keys' = [keys EXCEPT !.dsm = new,
                         !.pc = IF double_scalar_mul_done(new) THEN keys.ret
                                ELSE "double_scalar_mul"]

DoubleScalarMulStep ==
    /\ KeysAt("double_scalar_mul")
    /\ DoubleScalarMulTo(double_scalar_mul_step(keys.dsm))
    /\ UnchangedBut("keys")

\* x25519::exchange: one iteration of the ladder
LadderTo(new) ==
    keys' = [keys EXCEPT !.ladder = new,
                         !.pc = IF ladder_done(new) THEN keys.ret ELSE "ladder"]

LadderStep ==
    /\ KeysAt("ladder")
    /\ LadderTo(ladder_step(keys.ladder))
    /\ UnchangedBut("keys")

\* generate_keypair: the seed is the generator's, any seed not delivered yet
GenerateKeypair(seed) ==
    /\ KeysAt("idle")
    /\ Len(keys.pairs) < KeypairsOf(keys.use)
    /\ \A i \in 1..Len(keys.seeds) : keys.seeds[i] # seed
    /\ keys' = CallSha512([keys EXCEPT !.seeds = Append(keys.seeds, seed)], seed,
                          "generate_keypair_digest")
    /\ UnchangedBut("keys")

\* the clamping of generate_keypair
keypair_clamped(a_bytes) ==
    <<And8(a_bytes[1], 248)>> \o SubSeq(a_bytes, 2, 31)
        \o <<Or8(And8(a_bytes[32], 63), 64)>>

KeypairScalarOf(digest) ==
    keys' = CallFromScalarMul(
                [keys EXCEPT !.tmp = [scalar |-> Scalar_from_bytes(keypair_clamped(SubSeq(digest, 1, 32))),
                                      prefix |-> SubSeq(digest, 33, 64)]],
                Scalar_from_bytes(keypair_clamped(SubSeq(digest, 1, 32))),
                "generate_keypair_point")

KeypairScalar ==
    /\ KeysAt("generate_keypair_digest")
    /\ KeypairScalarOf(sha512_serialize(keys.hash.state))
    /\ UnchangedBut("keys")

\* GeP3::to_bytes begins with the inversion of z
KeypairPoint ==
    /\ KeysAt("generate_keypair_point")
    /\ keys' = CallChain(keys, invert_statements, keys.mul.h.z, "generate_keypair_public")
    /\ UnchangedBut("keys")

KeypairPublic ==
    /\ KeysAt("generate_keypair_public")
    /\ keys' = [keys EXCEPT !.pairs = Append(keys.pairs,
                                [public |-> ge_to_bytes_of(keys.mul.h, keys.chain.values.out),
                                 scalar |-> keys.tmp.scalar, prefix |-> keys.tmp.prefix]),
                            !.pc = "idle"]
    /\ UnchangedBut("keys")

\* sign(message, public, private) with the keypair generated
Sign(message) ==
    /\ KeysAt("idle")
    /\ keys.use = "signature"
    /\ Len(keys.pairs) = 1
    /\ keys.signature = None
    /\ keys' = CallSha512([keys EXCEPT !.message = <<message>>],
                          keys.pairs[1].prefix \o message, "sign_r")
    /\ UnchangedBut("keys")

SignNonceOf(r) ==
    keys' = CallFromScalarMul([keys EXCEPT !.tmp = [r |-> r]], r, "sign_r_point")

SignNonce ==
    /\ KeysAt("sign_r")
    /\ SignNonceOf(Scalar_reduce(sha512_serialize(keys.hash.state)))
    /\ UnchangedBut("keys")

SignPoint ==
    /\ KeysAt("sign_r_point")
    /\ keys' = CallChain(keys, invert_statements, keys.mul.h.z, "sign_r_bytes")
    /\ UnchangedBut("keys")

SignCommitOf(r_bytes) ==
    keys' = CallSha512([keys EXCEPT !.tmp = [r |-> keys.tmp.r, r_bytes |-> r_bytes]],
                       r_bytes \o keys.pairs[1].public \o keys.message[1], "sign_k")

SignCommit ==
    /\ KeysAt("sign_r_bytes")
    /\ SignCommitOf(ge_to_bytes_of(keys.mul.h, keys.chain.values.out))
    /\ UnchangedBut("keys")

\* the signature: r_bytes, then s = k * a + r
sign_signature(r_bytes, k, a, r) == r_bytes \o Scalar_from_mul_sum(k, a, r)

SignScalarOf(k) ==
    keys' = [keys EXCEPT !.signature = sign_signature(keys.tmp.r_bytes, k,
                                                      keys.pairs[1].scalar, keys.tmp.r),
                         !.pc = "idle"]

SignScalar ==
    /\ KeysAt("sign_k")
    /\ SignScalarOf(Scalar_reduce(sha512_serialize(keys.hash.state)))
    /\ UnchangedBut("keys")

\* the alteration the tests make before they verify a second time: signature[44] ^= 0x10
Alter ==
    /\ KeysAt("idle")
    /\ keys.signature # None
    /\ Len(keys.verdicts) = 1
    /\ ~ keys.altered
    /\ keys' = [keys EXCEPT !.signature[45] = Xor8(keys.signature[45], 16),
                            !.altered = TRUE]
    /\ UnchangedBut("keys")

\* verify(signature, message, public): the check of the top three bits of s, then
\* GeP3::decompress up to its power
verify_s_in_range(signature) == And8(signature[64], 224) = 0

VerifyDecompress(g) ==
    keys' = CallChain([keys EXCEPT !.tmp = g], pow22523_statements, g.x,
                      "verify_decompressed")

Verify ==
    /\ KeysAt("idle")
    /\ keys.signature # None
    /\ Len(keys.verdicts) = IF keys.altered THEN 1 ELSE 0
    /\ IF verify_s_in_range(keys.signature)
       THEN VerifyDecompress(decompress_begin(keys.pairs[1].public))
       ELSE keys' = [keys EXCEPT !.verdicts = Append(keys.verdicts, FALSE)]
    /\ UnchangedBut("keys")

VerifyDecompressedTo(a) ==
    IF a.ok # 0
    THEN keys' = [keys EXCEPT !.verdicts = Append(keys.verdicts, FALSE), !.pc = "idle"]
    ELSE keys' = CallSha512([keys EXCEPT !.tmp = a.point],
                            SubSeq(keys.signature, 1, 32) \o keys.pairs[1].public
                                \o keys.message[1],
                            "verify_h")

VerifyDecompressed ==
    /\ KeysAt("verify_decompressed")
    /\ VerifyDecompressedTo(decompress_end(keys.tmp, keys.chain.values.out))
    /\ UnchangedBut("keys")

VerifyHashedOf(h) ==
    keys' = [keys EXCEPT !.dsm = double_scalar_mul_begin(keys.tmp, h,
                                     Scalar_from_bytes(SubSeq(keys.signature, 33, 64))),
                         !.pc = "double_scalar_mul", !.ret = "verify_r_check"]

VerifyHashed ==
    /\ KeysAt("verify_h")
    /\ VerifyHashedOf(Scalar_reduce(sha512_serialize(keys.hash.state)))
    /\ UnchangedBut("keys")

\* GeP2::to_bytes begins with the inversion of z
VerifyPoint ==
    /\ KeysAt("verify_r_check")
    /\ keys' = CallChain(keys, invert_statements, keys.dsm.r.z, "verify_ct_eq")
    /\ UnchangedBut("keys")

\* ConstantTimeEq::ct_eq of two arrays of 32 bytes
ct_eq(a, b) == \A i \in 1..32 : a[i] = b[i]

VerifyCheck ==
    /\ KeysAt("verify_ct_eq")
    /\ keys' = [keys EXCEPT !.verdicts =
                                Append(keys.verdicts,
                                       ct_eq(ge_to_bytes_of(keys.dsm.r, keys.chain.values.out),
                                             SubSeq(keys.signature, 1, 32))),
                            !.pc = "idle"]
    /\ UnchangedBut("keys")

\* exchange(private, public) of keys/ed25519: x25519::exchange on the scalar of the
\* keypair who and the public key of the other keypair
ExchangeOf(who, x) ==
    keys' = CallChain([keys EXCEPT !.who = who, !.tmp = x], invert_statements,
                      fe_sub(fe_ONE, x.x1), "exchange_x1")

Exchange(who) ==
    /\ KeysAt("idle")
    /\ keys.use = "exchange"
    /\ Len(keys.pairs) = 2
    /\ who = Len(keys.shared) + 1
    /\ who <= 2
    /\ ExchangeOf(who, exchange_begin(Scalar_to_bytes(keys.pairs[who].scalar),
                                      keys.pairs[3 - who].public))
    /\ UnchangedBut("keys")

ExchangeLadder ==
    /\ KeysAt("exchange_x1")
    /\ keys' = [keys EXCEPT !.ladder = ladder_begin(keys.tmp.e,
                                           fe_mul(keys.tmp.tmp0, keys.chain.values.out)),
                            !.pc = "ladder", !.ret = "exchange_swap"]
    /\ UnchangedBut("keys")

ExchangeInvertOf(l) ==
    keys' = CallChain([keys EXCEPT !.ladder = l], invert_statements, l.z2, "exchange_to_bytes")

ExchangeInvert ==
    /\ KeysAt("exchange_swap")
    /\ ExchangeInvertOf(ladder_end(keys.ladder))
    /\ UnchangedBut("keys")

ExchangeOutput ==
    /\ KeysAt("exchange_to_bytes")
    /\ keys' = [keys EXCEPT !.shared = Append(keys.shared,
                                exchange_output(keys.ladder, keys.chain.values.out)),
                            !.pc = "idle"]
    /\ UnchangedBut("keys")

NextKeys ==
    \/ \E seed \in KeySeeds : GenerateKeypair(seed)
    \/ KeypairScalar
    \/ KeypairPoint
    \/ KeypairPublic
    \/ \E message \in Messages : Sign(message)
    \/ SignNonce
    \/ SignPoint
    \/ SignCommit
    \/ SignScalar
    \/ Alter
    \/ Verify
    \/ VerifyDecompressed
    \/ VerifyHashed
    \/ VerifyPoint
    \/ VerifyCheck
    \/ \E who \in 1..2 : Exchange(who)
    \/ ExchangeLadder
    \/ ExchangeInvert
    \/ ExchangeOutput
    \/ Sha512Round
    \/ FromScalarMulStep
    \/ ChainStep
    \/ DoubleScalarMulStep
    \/ LadderStep

SpecKeys == InitKeys /\ [][NextKeys]_vars

-----------------------------------------------------------------------------
(* The claims on the keys.                                                  *)

C16_ExchangeIsSymmetric ==
    (keys.phase = "keys" /\ Len(keys.shared) = 2) => keys.shared[1] = keys.shared[2]

\* both exchanges between two keypairs with different public keys have returned
C16_Witness ==
    /\ keys.phase = "keys"
    /\ keys.pc = "idle"
    /\ Len(keys.pairs) = 2
    /\ keys.pairs[1].public # keys.pairs[2].public
    /\ keys.pairs[1].scalar # keys.pairs[2].scalar
    /\ Len(keys.shared) = 2

-----------------------------------------------------------------------------
(* rng/csprng.rs: the constructors from_seed and from_os and the buffers    *)
(* that hold the seed.  U256 and [u8; 32] are Copy: a seed passed by value  *)
(* is copied into the parameter and the buffer it came from keeps it.       *)

\* the seeds handed to from_seed and the bytes sys_random may deliver, none of them zero
SeedBytes ==
    { SubSeq([i \in 1..32 |-> ((a * i) + b) % 256], 1, 32) : a \in 1..8, b \in 0..7 }

\* impl From<[u8; 32]> for U256
U256_from_bytes(value) == value

\* Csprng::from_seed: let key = seed; seed.0.fill(0): the parameter seed after the body
\* and the generator returned
from_seed_call(seed) == [seed |-> ZERO(32), gen |-> from_seed(seed)]

\* no constructor has been called yet
InitSeeded ==
    /\ IdleBut("seeded")
    /\ seeded = [phase |-> "seeded", via |-> "none", caller |-> <<>>, parameter |-> <<>>,
                 gen |-> NoGen]

\* the buffers once the call returns: caller is the buffer the seed was passed from, the
\* variable seed of the caller of from_seed or the array seed of from_os
SeededReturn(via, caller, r) ==
    seeded' = [seeded EXCEPT !.via = via, !.caller = caller, !.parameter = r.seed,
                             !.gen = r.gen]

\* let rng = Csprng::from_seed(seed)
SeedFromSeed(seed) ==
    /\ seeded.phase = "seeded"
    /\ seeded.via = "none"
    /\ SeededReturn("from_seed", seed, from_seed_call(seed))
    /\ UnchangedBut("seeded")

\* let rng = Csprng::from_os(): sys_random(&mut seed) delivers the bytes entropy, then
\* Self::from_seed(seed.into())
SeedFromOs(entropy) ==
    /\ seeded.phase = "seeded"
    /\ seeded.via = "none"
    /\ SeededReturn("from_os", entropy, from_seed_call(U256_from_bytes(entropy)))
    /\ UnchangedBut("seeded")

NextSeeded ==
    \/ \E seed \in SeedBytes : SeedFromSeed(seed)
    \/ \E entropy \in SeedBytes : SeedFromOs(entropy)

SpecSeeded == InitSeeded /\ [][NextSeeded]_vars

\* C21: when a generator is created from a seed, by from_seed or by from_os, every
\* buffer that held the seed other than the key of the generator is zeroed when the
\* constructor returns
C21_SeedBuffersZeroed ==
    (seeded.phase = "seeded" /\ seeded.via # "none") =>
        /\ seeded.caller = ZERO(32)
        /\ seeded.parameter = ZERO(32)

\* C21 for the parameter of from_seed: it is zeroed and the key is the seed
C21_ParameterZeroed ==
    (seeded.phase = "seeded" /\ seeded.via # "none") =>
        /\ seeded.parameter = ZERO(32)
        /\ seeded.gen.key = seeded.caller
        /\ seeded.gen.counter = <<0, 0>>

\* from_os has returned a generator with a key that is not zero
C21_Witness ==
    /\ seeded.phase = "seeded"
    /\ seeded.via = "from_os"
    /\ seeded.gen.key # ZERO(32)
    /\ seeded.caller = seeded.gen.key

-----------------------------------------------------------------------------
(* encryption/poly1305/core.rs: a call of encrypt followed by a call of     *)
(* decrypt, seen from inside: the local buffer otk of each call as the call *)
(* leaves it, and the loop of decrypt that compares the tags, one iteration *)
(* at a time.                                                               *)

\* the tags handed to decrypt: the tag of encrypt (at = 0) or that tag with bit 0 or
\* bit 7 of byte at (from 1) flipped
TagAltered(tag, at, b) == IF at = 0 THEN tag ELSE [tag EXCEPT ![at] = FlipBit(tag[at], b)]

\* no call made yet
NotCalled == [pc |-> "none", otk |-> <<>>]

InitInside ==
    /\ IdleBut("inside")
    /\ inside \in { [phase |-> "inside", key |-> k, nonce |-> n, ciphertext |-> <<>>,
                     tag |-> <<>>, enc |-> NotCalled, dec |-> NotCalled]
                    : k \in AeadKeys, n \in AeadNonces }

\* encrypt from the derivation of the one-time key on: otk is written once, read by auth
\* and not written again
encrypt_inside(key, nonce, plaintext, otk) ==
    [pc |-> "returned", otk |-> otk,
     out |-> encrypt_tagged(otk, xor(key, nonce, <<0, 1>>, plaintext))]

\* encrypt(&key, &nonce, &plaintext, &mut ciphertext, &mut tag) with buffers of n bytes
InsideEncryptReturn(r) ==
    inside' = [inside EXCEPT !.enc = [pc |-> r.pc, otk |-> r.otk],
                             !.ciphertext = r.out.ciphertext, !.tag = r.out.tag]

InsideEncrypt(n) ==
    /\ inside.phase = "inside"
    /\ inside.enc.pc = "none"
    /\ InsideEncryptReturn(encrypt_inside(inside.key, inside.nonce, Plain(n),
                                          one_time_key(inside.key, inside.nonce)))
    /\ UnchangedBut("inside")

\* decrypt up to the loop: the check of the lengths, otk, expected_tag, diff = 0
decrypt_to_loop(key, nonce, ciphertext, tag, plaintext, otk) ==
    IF Len(plaintext) # Len(ciphertext)
    THEN [pc |-> "returned", otk |-> <<>>, result |-> "InvalidLength", examined |-> <<>>]
    ELSE [pc |-> "loop", otk |-> otk, result |-> "None", examined |-> <<>>,
          expected_tag |-> auth(otk, mac_data(ciphertext)), tag |-> tag, i |-> 0,
          diff |-> 0]

\* decrypt is called with the ciphertext of encrypt, a tag and a buffer of blen bytes
InsideDecrypt(at, b, blen) ==
    /\ inside.phase = "inside"
    /\ inside.enc.pc = "returned"
    /\ inside.dec.pc = "none"
    /\ inside' = [inside EXCEPT !.dec =
                      decrypt_to_loop(inside.key, inside.nonce, inside.ciphertext,
                                      TagAltered(inside.tag, at, b), Stale(blen),
                                      one_time_key(inside.key, inside.nonce))]
    /\ UnchangedBut("inside")

\* a loop that stops at the first byte that differs
compare_continues_while_equal(i, diff) == i < 16 /\ diff = 0

\* for i in 0..16
compare_continues(i, diff) == i < 16

\* diff |= expected_tag[i] ^ tag[i]: the byte examined is noted
compare_byte(d) ==
    [d EXCEPT !.diff = Or8(d.diff, Xor8(d.expected_tag[d.i + 1], d.tag[d.i + 1])),
              !.i = d.i + 1,
              !.examined = Append(d.examined, d.i)]

InsideCompareByte ==
    /\ inside.phase = "inside"
    /\ inside.dec.pc = "loop"
    /\ compare_continues(inside.dec.i, inside.dec.diff)
    /\ inside' = [inside EXCEPT !.dec = compare_byte(inside.dec)]
    /\ UnchangedBut("inside")

\* decrypt after the loop: otk.fill(0), then the decision on diff
decrypt_decided(d) ==
    [d EXCEPT !.pc = "returned", !.otk = ZERO(32),
              !.result = IF d.diff # 0 THEN "AuthenticationFailed" ELSE "Ok"]

InsideDecide ==
    /\ inside.phase = "inside"
    /\ inside.dec.pc = "loop"
    /\ ~ compare_continues(inside.dec.i, inside.dec.diff)
    /\ inside' = [inside EXCEPT !.dec = decrypt_decided(inside.dec)]
    /\ UnchangedBut("inside")

NextInside ==
    \/ \E n \in PlainLens : InsideEncrypt(n)
    \/ \E at \in 0..16 : \E b \in {0, 7} :
         \E blen \in {Len(inside.ciphertext), Len(inside.ciphertext) + 1} :
           InsideDecrypt(at, b, blen)
    \/ InsideCompareByte
    \/ InsideDecide

SpecInside == InitInside /\ [][NextInside]_vars

\* C22: encrypt and decrypt both overwrite the one-time key with zeros before they
\* return, on every return path taken after the key has been derived
C22_OtkZeroedOnReturn ==
    inside.phase = "inside" =>
        /\ (inside.enc.pc = "returned") => inside.enc.otk = ZERO(32)
        /\ (inside.dec.pc = "returned" /\ inside.dec.result # "InvalidLength") =>
               inside.dec.otk = ZERO(32)

\* C22 for decrypt: otk is zeroed on both of its returns after the derivation
C22_DecryptZeroesOtk ==
    (inside.phase = "inside" /\ inside.dec.pc = "returned"
                             /\ inside.dec.result # "InvalidLength") =>
        inside.dec.otk = ZERO(32)

\* encrypt has returned and its otk still holds the one-time key; decrypt has returned
\* with a failed authentication
C22_Witness ==
    /\ inside.phase = "inside"
    /\ inside.enc.pc = "returned"
    /\ inside.enc.otk = one_time_key(inside.key, inside.nonce)
    /\ inside.enc.otk # ZERO(32)
    /\ inside.dec.pc = "returned"
    /\ inside.dec.result = "AuthenticationFailed"

\* C23: the comparison of the tags in decrypt examines all 16 bytes without an early
\* exit: up to the decision the bytes examined are 0, 1, .. 15 in this order, whatever
\* the two tags are and wherever they first differ
C23_AllBytesExamined ==
    (inside.phase = "inside" /\ inside.dec.pc # "none"
                             /\ inside.dec.result # "InvalidLength") =>
        /\ inside.dec.examined = SubSeq(<<0, 1, 2, 3, 4, 5, 6, 7, 8, 9, 10, 11, 12, 13, 14, 15>>,
                                        1, Len(inside.dec.examined))
        /\ (inside.dec.pc = "returned") => Len(inside.dec.examined) = 16

\* decrypt has rejected a tag that differs from the computed one in its first byte
C23_Witness ==
    /\ inside.phase = "inside"
    /\ inside.dec.pc = "returned"
    /\ inside.dec.result = "AuthenticationFailed"
    /\ inside.dec.tag[1] # inside.dec.expected_tag[1]
    /\ Len(inside.dec.examined) = 16

-----------------------------------------------------------------------------
(* keys/x25519/core.rs: the variables of the ladder from one iteration to   *)
(* the next.                                                                *)

\* an iteration of the ladder has run and the next one, or the swaps after the loop,
\* come next
LadderBetweenIterations ==
    /\ keys.phase = "keys"
    /\ keys.pc \in {"ladder", "exchange_swap"}
    /\ keys.ladder.pos < 254

\* C24: in each of the 255 iterations of the ladder the swaps and the ladder step read
\* the x2, z2, x3 and z3 written by the iteration before, and the swaps after the loop
\* work on the x3 and z3 of the last iteration: the z3 that is read next is the z3 = x1 * z2
\* the iteration before has written
C24_LadderVariablesCarried ==
    LadderBetweenIterations => keys.ladder.z3 = keys.ladder.z3_loop

\* the loop has run its 255 iterations and the z3 the swaps after the loop work on is
\* not the field element the last iteration has written to z3
C24_Witness ==
    /\ keys.phase = "keys"
    /\ keys.pc = "exchange_swap"
    /\ keys.ladder.pos = -1
    /\ fe_to_bytes(keys.ladder.z3) # fe_to_bytes(keys.ladder.z3_loop)

-----------------------------------------------------------------------------
(* derivation/argon2id/memory.rs: the addressing of fill_segment, one turn  *)
(* of its loop at a time, on segments of more than 128 blocks.  The address *)
(* block is kept as the arguments generate_address_block was called with,   *)
(* and a word of it is address_word of these arguments.                     *)

\* mem_kib of the segments: segment_len is 129, 130 or 260
SegMemKibs == {516, 1040}

\* the first word of memory[prev] that a data-dependent segment can read
SegWords == { <<Zero32, Zero32>>, <<<<1, 2>>, <<3, 4>>>> }

\* Block::ZERO as an address block
AddrZero == [counter |-> 0, zero |-> TRUE]

\* Block::generate_address_block(pass, lane, slice, total_blocks, time, counter)
generate_address_block(pass, lane, slice, total_blocks, time, counter) ==
    [pass |-> pass, lane |-> lane, slice |-> slice, total_blocks |-> total_blocks,
     time |-> time, counter |-> counter, zero |-> FALSE]

\* addr_block.0[w]
addr_block_word(b, w) ==
    IF b.zero THEN <<Zero32, Zero32>>
    ELSE address_word(b.pass, b.lane, b.slice, b.total_blocks, b.time, b.counter, w)

InitSeg ==
    /\ IdleBut("seg")
    /\ seg \in { [phase |-> "seg", pc |-> "call", layout |-> MemoryLayout_new(mem_kib, lanes),
                  time |-> time, pass |-> pass, slice |-> slice, lane |-> lane,
                  i |-> 0, addr_block |-> AddrZero, address_counter |-> 0,
                  generated |-> <<>>, j |-> <<>>]
                 : mem_kib \in SegMemKibs, time \in {MaxPasses},
                   lanes \in 1..MaxLanes, lane \in 0..(MaxLanes - 1),
                   pass \in 0..(MaxPasses - 1), slice \in 0..3 }
    /\ seg.lane < seg.layout.lanes

data_independent(pass, slice) == pass = 0 /\ slice < 2

\* fill_segment before its loop: the address block of counter 1 in a data-independent
\* segment; generated notes the index each address block was made at, -1 before the loop
segment_begin(s) ==
    IF data_independent(s.pass, s.slice)
    THEN [s EXCEPT !.pc = "loop", !.i = start_idx(s.pass, s.slice),
                   !.address_counter = 1,
                   !.addr_block = generate_address_block(s.pass, s.lane, s.slice,
                                                         s.layout.total_blocks, s.time, 1),
                   !.generated = <<<<-1, 1>>>>]
    ELSE [s EXCEPT !.pc = "loop", !.i = start_idx(s.pass, s.slice)]

SegmentBegin ==
    /\ seg.phase = "seg"
    /\ seg.pc = "call"
    /\ seg' = segment_begin(seg)
    /\ UnchangedBut("seg")

\* an address block is made anew at every multiple of 128, the index 0 included
address_regenerated_at_zero(i) == i % 128 = 0

\* if i != 0 && i % 128 == 0
address_regenerated(i) == i # 0 /\ i % 128 = 0

\* the branch of a data-independent segment up to the read of the word
segment_address(s) ==
    IF address_regenerated(s.i)
    THEN [s EXCEPT !.address_counter = s.address_counter + 1,
                   !.addr_block = generate_address_block(s.pass, s.lane, s.slice,
                                                         s.layout.total_blocks, s.time,
                                                         s.address_counter + 1),
                   !.generated = Append(s.generated, <<s.i, s.address_counter + 1>>)]
    ELSE s

\* (word as u32, (word >> 32) as u32) of addr_block.0[i % 128]; the turn ends and i advances
segment_read(s) ==
    [s EXCEPT !.j = <<s.i, addr_block_word(s.addr_block, s.i % 128)[1],
                           addr_block_word(s.addr_block, s.i % 128)[2]>>,
              !.i = s.i + 1]

\* one turn of the loop of a data-independent segment
SegmentIndependent ==
    /\ seg.phase = "seg"
    /\ seg.pc = "loop"
    /\ seg.i < seg.layout.segment_len
    /\ data_independent(seg.pass, seg.slice)
    /\ seg' = segment_read(segment_address(seg))
    /\ UnchangedBut("seg")

\* one turn of the loop of a data-dependent segment: word is memory[prev].0[0]
SegmentDependent(word) ==
    /\ seg.phase = "seg"
    /\ seg.pc = "loop"
    /\ seg.i < seg.layout.segment_len
    /\ ~ data_independent(seg.pass, seg.slice)
    /\ seg' = [seg EXCEPT !.j = <<seg.i, word[1], word[2]>>, !.i = seg.i + 1]
    /\ UnchangedBut("seg")

SegmentEnd ==
    /\ seg.phase = "seg"
    /\ seg.pc = "loop"
    /\ seg.i >= seg.layout.segment_len
    /\ seg' = [seg EXCEPT !.pc = "returned"]
    /\ UnchangedBut("seg")

NextSeg ==
    \/ SegmentBegin
    \/ SegmentIndependent
    \/ \E word \in SegWords : SegmentDependent(word)
    \/ SegmentEnd

SpecSeg == InitSeg /\ [][NextSeg]_vars

\* the address blocks made up to the turn of index i: counter 1 before the loop and
\* one more at each positive multiple of 128 up to i
generated_up_to(i) ==
    <<<<-1, 1>>>> \o [k \in 1..(i \div 128) |-> <<128 * k, k + 1>>]

\* C25: in a data-independent segment (pass 0, slice 0 or 1) the address block is made
\* with counter 1 before the first index and made anew, with the counter one more,
\* exactly at each index of the segment that is a positive multiple of 128; (J1, J2) of
\* index i are the low and the high 32 bits of word i mod 128 of the address block of
\* counter floor(i / 128) + 1
C25_AddressBlockSchedule ==
    (seg.phase = "seg" /\ seg.pc # "call" /\ data_independent(seg.pass, seg.slice)) =>
        /\ seg.j = <<>> => seg.generated = <<<<-1, 1>>>>
        /\ seg.j # <<>> =>
             /\ seg.generated = generated_up_to(seg.j[1])
             /\ seg.address_counter = (seg.j[1] \div 128) + 1
             /\ seg.j[2] = address_word(seg.pass, seg.lane, seg.slice,
                                        seg.layout.total_blocks, seg.time,
                                        (seg.j[1] \div 128) + 1, seg.j[1] % 128)[1]
             /\ seg.j[3] = address_word(seg.pass, seg.lane, seg.slice,
                                        seg.layout.total_blocks, seg.time,
                                        (seg.j[1] \div 128) + 1, seg.j[1] % 128)[2]

\* the turn of index 256 of slice 1 has read its word from the third address block,
\* and the word differs from the one the second address block has there
C25_Witness ==
    /\ seg.phase = "seg"
    /\ seg.pc = "loop"
    /\ seg.pass = 0
    /\ seg.slice = 1
    /\ seg.j # <<>>
    /\ seg.j[1] = 256
    /\ seg.generated = <<<<-1, 1>>, <<128, 2>>, <<256, 3>>>>
    /\ <<seg.j[2], seg.j[3]>> # address_word(seg.pass, seg.lane, seg.slice,
                                             seg.layout.total_blocks, seg.time, 2, 0)

-----------------------------------------------------------------------------
(* derivation/argon2id/memory.rs: MemoryLayout::fill in its own order, one  *)
(* block write at a time, with the contents of the blocks and the number of *)
(* writes each block has had in each pass.                                  *)

\* no block written yet
NoWrite ==
    [written |-> FALSE, pass |-> 0, lane |-> 0, at |-> [cur |-> 0, prev |-> 0, reference |-> 0],
     old |-> Block_ZERO, prev_block |-> Block_ZERO, reference_block |-> Block_ZERO]

\* argon2id up to the call of fill
FillStart(h0, layout, time) ==
    [phase |-> "fill", layout |-> layout, time |-> time,
     at |-> first_write(layout, time),
     memory |-> initial_memory(h0, layout),
     writes |-> [p \in 1..time |-> [b \in 1..layout.total_blocks |-> 0]],
     last |-> NoWrite]

InitFill ==
    /\ filled \in { FillStart(h0, MemoryLayout_new(p[1], p[2]), time) :
                 h0 \in H0s,
                 p \in { q \in MemKibs \X (1..MaxLanes) : q[1] >= 8 * q[2] },
                 time \in 1..MaxPasses }
    /\ IdleBut("filled")

\* the turn of the loop of fill_segment at filled.at writes block at.cur
FillWriteAt(at) ==
    filled' = [filled EXCEPT
               !.at = next_write(filled.layout, filled.time, [filled.at EXCEPT !.i = filled.at.i + 1]),
               !.memory = fill_block_at(filled.memory, filled.at.pass, at),
               !.writes[filled.at.pass + 1][at.cur + 1] = @ + 1,
               !.last = [written |-> TRUE, pass |-> filled.at.pass, lane |-> filled.at.lane,
                         at |-> at, old |-> filled.memory[at.cur + 1],
                         prev_block |-> filled.memory[at.prev + 1],
                         reference_block |-> filled.memory[at.reference + 1]]]

\* fill: the next turn of the loop of fill_segment, in the order of the loops over the
\* passes, the slices and the lanes
FillWrite ==
    /\ filled.phase = "fill"
    /\ filled.at.pass < filled.time
    /\ FillWriteAt(fill_block_indices(filled.memory, filled.layout, filled.at.pass, filled.at.slice,
                                      filled.at.lane, filled.at.i, filled.time))
    /\ UnchangedBut("filled")

NextFill == FillWrite

SpecFill == InitFill /\ [][NextFill]_vars

\* the number of writes block b must have had in pass p when the fill is at pass now
WritesDue(p, b, now) ==
    IF p = 0 /\ b % filled.layout.lane_len < 2 THEN {0}
    ELSE IF p < now THEN {1}
    ELSE IF p = now THEN {0, 1}
    ELSE {0}

\* C26: every pass writes every block of every lane exactly once, but pass 0 never
\* writes the columns 0 and 1; a write of pass 0 stores G(prev, ref) and a write of a
\* later pass stores G(prev, ref) XOR the old contents; prev is the column before in the
\* same lane, the last column when the column written is 0
C26_EachBlockOncePerPass ==
    filled.phase = "fill" =>
        /\ \A p \in 0..(filled.time - 1) : \A b \in 0..(filled.layout.total_blocks - 1) :
             filled.writes[p + 1][b + 1] \in WritesDue(p, b, filled.at.pass)
        /\ filled.last.written =>
             /\ filled.memory[filled.last.at.cur + 1]
                  = IF filled.last.pass = 0
                    THEN compress(filled.last.prev_block, filled.last.reference_block)
                    ELSE <<Xor32(filled.last.old[1],
                                 compress(filled.last.prev_block, filled.last.reference_block)[1]),
                           Xor32(filled.last.old[2],
                                 compress(filled.last.prev_block, filled.last.reference_block)[2])>>
             /\ filled.last.at.cur \div filled.layout.lane_len = filled.last.lane
             /\ filled.last.at.prev \div filled.layout.lane_len = filled.last.lane
             /\ filled.last.at.prev % filled.layout.lane_len
                  = ((filled.last.at.cur % filled.layout.lane_len) + filled.layout.lane_len - 1)
                      % filled.layout.lane_len

\* the second pass has written column 0 of the second lane over contents that were not
\* zero, with the last column of the lane as prev
C26_Witness ==
    /\ filled.phase = "fill"
    /\ filled.last.written
    /\ filled.last.pass = 1
    /\ filled.last.lane = 1
    /\ filled.last.at.cur % filled.layout.lane_len = 0
    /\ filled.last.at.prev % filled.layout.lane_len = filled.layout.lane_len - 1
    /\ filled.last.old # Block_ZERO
    /\ filled.memory[filled.last.at.cur + 1] # compress(filled.last.prev_block, filled.last.reference_block)

-----------------------------------------------------------------------------
(* rng/csprng.rs: the counter of a generator over a sequence of fill_bytes  *)
(* calls, one ChaCha20 block at a time.  The generator starts from_seed, or *)
(* is one that has already made 2^32 - 2 blocks, so that the counter wraps. *)

\* the counter of the generator at the first call: 0 and 2^32 - 2
StartCounters == { <<0, 0>>, <<65535, 65534>> }

StreamLens == {0, 1, 64, 65, 129}

\* no call of fill_bytes running
NoFill == [pc |-> "idle", out |-> <<>>, offset |-> 0, counter |-> <<0, 0>>, len |-> 0]

InitStream ==
    /\ IdleBut("stream")
    /\ stream \in { [phase |-> "stream", gen |-> [from_seed(s) EXCEPT !.counter = c],
                     calls |-> 0, fill |-> NoFill, blocks |-> <<>>]
                    : s \in Seeds, c \in StartCounters }

\* fill_bytes(&mut [0u8; len]) is called: let mut offset = 0
StreamFillBytes(len) ==
    /\ stream.phase = "stream"
    /\ stream.fill.pc = "idle"
    /\ stream.calls < MaxCalls
    /\ stream' = [stream EXCEPT !.calls = stream.calls + 1,
                                !.fill = [pc |-> "loop", out |-> [i \in 1..len |-> 0],
                                          offset |-> 0, counter |-> stream.gen.counter,
                                          len |-> len]]
    /\ UnchangedBut("stream")

\* one turn of the while loop of fill_bytes; blocks notes the counter of every block
\* that chacha20_block is asked for
fill_bytes_turn(s, blk) ==
    [s EXCEPT !.gen.counter = wrapping_add(s.gen.counter, <<0, 1>>),
              !.fill.out = copy_from_slice(s.fill.out, s.fill.offset,
                                           Min(64, Len(s.fill.out) - s.fill.offset), blk),
              !.fill.offset = s.fill.offset + Min(64, Len(s.fill.out) - s.fill.offset),
              !.blocks = Append(s.blocks, s.gen.counter)]

StreamBlock ==
    /\ stream.phase = "stream"
    /\ stream.fill.pc = "loop"
    /\ stream.fill.offset < Len(stream.fill.out)
    /\ stream' = fill_bytes_turn(stream, chacha20_block(stream.gen.key, stream.gen.counter,
                                                        stream.gen.nonce))
    /\ UnchangedBut("stream")

\* self.rekey() after the loop, and the return of fill_bytes
fill_bytes_rekey(s) ==
    [s EXCEPT !.gen = rekey(s.gen), !.fill.pc = "idle",
              !.blocks = Append(s.blocks, s.gen.counter)]

StreamRekey ==
    /\ stream.phase = "stream"
    /\ stream.fill.pc = "loop"
    /\ stream.fill.offset >= Len(stream.fill.out)
    /\ stream' = fill_bytes_rekey(stream)
    /\ UnchangedBut("stream")

NextStream ==
    \/ \E len \in StreamLens : StreamFillBytes(len)
    \/ StreamBlock
    \/ StreamRekey

SpecStream == InitStream /\ [][NextStream]_vars

\* C27: over any sequence of fill_bytes calls the block counter advances by exactly
\* ceil(len / 64) + 1 per call, wrapping modulo 2^32, and is never reset or decreased:
\* every ChaCha20 block, of output or of rekey, is made at the counter one greater than
\* that of the block before
C27_CounterAdvances ==
    stream.phase = "stream" =>
        /\ \A k \in 1..(Len(stream.blocks) - 1) :
             stream.blocks[k + 1] = wrapping_add(stream.blocks[k], <<0, 1>>)
        /\ stream.blocks # <<>> =>
             stream.gen.counter = wrapping_add(stream.blocks[Len(stream.blocks)], <<0, 1>>)
        /\ (stream.calls > 0 /\ stream.fill.pc = "idle") =>
             stream.gen.counter
               = wrapping_add(stream.fill.counter, <<0, ((stream.fill.len + 63) \div 64) + 1>>)

\* two calls have returned, the second one of 129 bytes, and the counter has wrapped
\* from 2^32 - 1 to 0 within the second call
C27_Witness ==
    /\ stream.phase = "stream"
    /\ stream.calls = 2
    /\ stream.fill.pc = "idle"
    /\ stream.fill.len = 129
    /\ Len(stream.blocks) = 5
    /\ \E k \in 1..(Len(stream.blocks) - 1) :
         stream.blocks[k] = <<65535, 65535>> /\ stream.blocks[k + 1] = <<0, 0>>
    /\ stream.fill.counter = <<65535, 65535>>
    /\ stream.gen.counter = <<0, 3>>

-----------------------------------------------------------------------------
(* signatures/ed25519/group.rs: the point GeP3::decompress returns for the  *)
(* public key in verify.  The point has z = 1, whose inverse is 1.          *)

\* decompress has returned with status 0 and its point is in tmp
Decompressed == keys.phase = "keys" /\ keys.pc = "verify_h"

\* C28: after a successful decompress of s the sign of the x returned, the low bit of
\* its canonical encoding, is bit 255 of s, so that decompress(compress(P)) = P for
\* every valid point P
C28_DecompressKeepsSign ==
    Decompressed =>
        /\ fe_is_negative(keys.tmp.x) = keys.pairs[1].public[32] \div 128
        /\ ge_to_bytes_of(keys.tmp, fe_ONE) = keys.pairs[1].public

\* C28 with the sign turned: the point returned has the y of the encoding and the x of
\* the other sign
C28_DecompressNegates ==
    Decompressed =>
        /\ fe_to_bytes(keys.tmp.y)
             = [keys.pairs[1].public EXCEPT ![32] = keys.pairs[1].public[32] % 128]
        /\ fe_is_negative(fe_neg(keys.tmp.x)) = keys.pairs[1].public[32] \div 128
        /\ ge_to_bytes_of([keys.tmp EXCEPT !.x = fe_neg(keys.tmp.x)], fe_ONE)
             = keys.pairs[1].public

\* decompress has returned a point for a public key made by generate_keypair, and the
\* sign of its x is not the sign bit of the key
C28_Witness ==
    /\ Decompressed
    /\ keys.pairs[1].public = ge_to_bytes_of([keys.tmp EXCEPT !.x = fe_neg(keys.tmp.x)], fe_ONE)
    /\ fe_is_negative(keys.tmp.x) # keys.pairs[1].public[32] \div 128

-----------------------------------------------------------------------------
(* signatures/ed25519/group.rs: the recoding of the scalar at the head of   *)
(* GeP3::from_scalar_mul, one iteration of its carry loop at a time, for    *)
(* scalars of any 32 bytes.  The digits are i8; no sum here leaves -128..127. *)

\* scalars: patterns of bytes, and the scalars whose digits reach the ends of the ranges
RecodedScalars ==
    SeedBytes
    \cup { [i \in 1..32 |-> b] : b \in {0, 7, 8, 119, 120, 127, 128, 136, 255} }
    \cup { [i \in 1..32 |-> IF i = 32 THEN t ELSE b] : b \in {0, 136, 255}, t \in {64, 127, 128, 240} }

InitRecode ==
    /\ IdleBut("recode")
    /\ recode \in { [phase |-> "recode", pc |-> "call", a |-> a, e |-> <<>>, carry |-> 0, i |-> 0]
                    : a \in RecodedScalars }

\* the first loop: e[2 * i] = byte & 0x0f, e[2 * i + 1] = byte >> 4
recode_nibbles(a) == SubSeq([k \in 1..64 |-> radix16_nibble(a, k - 1)], 1, 64)

RecodeNibbles ==
    /\ recode.phase = "recode"
    /\ recode.pc = "call"
    /\ recode' = [recode EXCEPT !.pc = "carry", !.e = recode_nibbles(recode.a)]
    /\ UnchangedBut("recode")

\* *v += carry; carry = (*v + 8) >> 4; *v -= carry << 4, v being e[i]
recode_carry(r) ==
    [r EXCEPT !.e[r.i + 1] = (r.e[r.i + 1] + r.carry)
                               - (16 * ((r.e[r.i + 1] + r.carry + 8) \div 16)),
              !.carry = (r.e[r.i + 1] + r.carry + 8) \div 16,
              !.i = r.i + 1]

\* one iteration of for v in e.iter_mut().take(63)
RecodeCarry ==
    /\ recode.phase = "recode"
    /\ recode.pc = "carry"
    /\ recode.i < 63
    /\ recode' = recode_carry(recode)
    /\ UnchangedBut("recode")

\* a recoding that leaves the last carry out
recode_last_without_carry(r) == [r EXCEPT !.pc = "recoded"]

\* e[63] += carry
recode_last(r) == [r EXCEPT !.e[64] = r.e[64] + r.carry, !.pc = "recoded"]

RecodeLast ==
    /\ recode.phase = "recode"
    /\ recode.pc = "carry"
    /\ recode.i = 63
    /\ recode' = recode_last(recode)
    /\ UnchangedBut("recode")

NextRecode ==
    \/ RecodeNibbles
    \/ RecodeCarry
    \/ RecodeLast

SpecRecode == InitRecode /\ [][NextRecode]_vars

\* the number whose digits in radix 16 are e, as its 64 nibbles and what is above them:
\* the digits are added from the lowest on with the borrow or the carry of the one before
digits_sum_at(s, k) ==
    [n |-> Append(s.n, (s.e[k] + s.c) % 16), c |-> (s.e[k] + s.c) \div 16, e |-> s.e]

digits_sum(e) == FoldStrict(digits_sum_at, [n |-> <<>>, c |-> 0, e |-> e], 1, 64)

\* the weighted sum of the digits e, digit i times 16^i, is the scalar a
DigitsSumTo(e, a) ==
    /\ digits_sum(e).n = recode_nibbles(a)
    /\ digits_sum(e).c = 0

-----------------------------------------------------------------------------
(* signatures/ed25519/scalar.rs: Scalar::slide, one index of its outer loop *)
(* at a time, for scalars below 2^253.                                      *)

\* scalars below 2^253: patterns of bytes with the top byte below 32, 0, 1, 2^253 - 1,
\* 2^252 and the scalars of bytes 0x55, 0xaa, 0x77 and 0xee below the top byte
SlidScalars ==
    { [s EXCEPT ![32] = s[32] % 32] : s \in { t \in SeedBytes : t[1] < 4 } }
    \cup { [i \in 1..32 |-> IF i = 32 THEN t ELSE b] :
             b \in {0, 1, 85, 119, 170, 238, 255}, t \in {0, 16, 31} }

InitSlide ==
    /\ IdleBut("slid")
    /\ slid \in { [phase |-> "slide", pc |-> "call", a |-> a, r |-> <<>>, i |-> 0]
                  : a \in SlidScalars }

\* let mut r = array::from_fn(..)
SlideBits ==
    /\ slid.phase = "slide"
    /\ slid.pc = "call"
    /\ slid' = [slid EXCEPT !.pc = "loop", !.r = slide_bits(slid.a)]
    /\ UnchangedBut("slid")

\* one turn of for index in 0..256
SlideIndex ==
    /\ slid.phase = "slide"
    /\ slid.pc = "loop"
    /\ slid.i < 256
    /\ slid' = [slid EXCEPT !.r = slide_at(slid.r, slid.i), !.i = slid.i + 1]
    /\ UnchangedBut("slid")

SlideReturn ==
    /\ slid.phase = "slide"
    /\ slid.pc = "loop"
    /\ slid.i = 256
    /\ slid' = [slid EXCEPT !.pc = "returned"]
    /\ UnchangedBut("slid")

NextSlide ==
    \/ SlideBits
    \/ SlideIndex
    \/ SlideReturn

SpecSlide == InitSlide /\ [][NextSlide]_vars

\* the number whose signed binary digits are r, as its 256 bits and what is above them
bits_sum_at(s, k) ==
    [n |-> Append(s.n, (s.r[k] + s.c) % 2), c |-> (s.r[k] + s.c) \div 2, r |-> s.r]

bits_sum(r) == FoldStrict(bits_sum_at, [n |-> <<>>, c |-> 0, r |-> r], 1, 256)

\* C30: for every scalar of 32 bytes below 2^253, slide returns 256 signed digits of
\* which every one that is not zero is odd and in [-15, 15], and whose weighted sum
\* (digit i times 2^i) is the scalar
C30_SlideDigits ==
    (slid.phase = "slide" /\ slid.pc = "returned") =>
        /\ Len(slid.r) = 256
        /\ \A k \in 1..256 :
             slid.r[k] # 0 => (slid.r[k] \in -15..15 /\ slid.r[k] % 2 = 1)
        /\ bits_sum(slid.r).n = slide_bits(slid.a)
        /\ bits_sum(slid.r).c = 0

\* slide has returned digits among which are a negative one, one above 7 and one
\* below -7, for a scalar that is not zero in its top byte
C30_Witness ==
    /\ slid.phase = "slide"
    /\ slid.pc = "returned"
    /\ slid.a[32] # 0
    /\ \E k \in 1..256 : slid.r[k] > 7
    /\ \E k \in 1..256 : slid.r[k] < -7
    /\ slid.r # slide_bits(slid.a)

=============================================================================
